---- MODULE Spec2Model ----
(***************************************************************************)
(* Cache manager (src/lib/cache-manager.ts) and cache-aware fetch client   *)
(* (src/unnamed/part_002) of the crypto dashboard.                         *)
(*                                                                         *)
(* localStorage is a function from storage keys to items.  An item is the  *)
(* text stored under a key: NoItem (getItem returns null), the text of a   *)
(* JSON value, or text that JSON.parse rejects.  Payloads are JSON values, *)
(* written as their JSON text; "null" is JavaScript null.                  *)
(***************************************************************************)
EXTENDS Integers, Sequences, FiniteSets, TLC

VARIABLES client, blocked, storage, now, written, op, calls,
          hook, details, favorites

vars == <<client, blocked, storage, now, written, op, calls,
          hook, details, favorites>>

\* the state of the React hooks
react == <<hook, details, favorites>>

-----------------------------------------------------------------------------
(* Program constants *)

CACHE_PREFIX == "crypto_cache_"

DEFAULT_TTL == 10 * 60 * 1000

STORAGE_KEY == "crypto-favorites"

RATE_LIMIT_MESSAGE == "Rate limit exceeded. Please wait a moment."

-----------------------------------------------------------------------------
(* Bounds of the model *)

\* the clock advances in steps of TickMs, at most MaxTicks times
MaxTicks == 3

TickMs == DEFAULT_TTL \div 2

\* cache keys in use: those of getGlobalData and getTrendingCoins
Keys == {"global-data", "trending-coins"}

\* JSON payloads: null, a falsy non-null value, two objects
NULL == "null"

Payloads == {NULL, "false", "{P1}", "{P2}"}

\* values of the ttl argument of setCachedData
TTLs == {0, DEFAULT_TTL}

\* favourite lists that use-favorites saves
FavoriteLists == {<<>>, <<"bitcoin">>}

\* ghost value: no payload written
NoPayload == "<none>"

-----------------------------------------------------------------------------
(* JavaScript helpers *)

\* String.prototype.startsWith
startsWith(s, prefix) ==
  /\ Len(s) >= Len(prefix)
  /\ SubSeq(s, 1, Len(prefix)) = prefix

\* ToBoolean of a JSON payload: null, false, 0 and "" are falsy
Truthy(v) == v \notin {NULL, "false", "0", "\"\""}

\* localStorage.getItem(key) returning null
NoItem == [kind |-> "none"]

\* text that JSON.parse rejects with a SyntaxError
Garbage == [kind |-> "garbage"]

JSON_stringify(v) == [kind |-> "json", value |-> v]

\* JSON.parse throws on text that is not JSON
JSON_parse_throws(item) == item.kind # "json"

JSON_parse(item) == item.value

getCacheKey(key) == CACHE_PREFIX \o key

StorageKeys == {getCacheKey(k) : k \in Keys} \cup {STORAGE_KEY}

\* the storage keys that the scans of clearAllCache, clearExpiredCache and
\* getCacheStats select: present in localStorage and starting with the prefix
PrefixedKeys ==
  {sk \in StorageKeys : storage[sk] # NoItem /\ startsWith(sk, CACHE_PREFIX)}

-----------------------------------------------------------------------------
(* Cache manager: reads *)

\* a localStorage call can succeed: there is a window and the browser lets
\* the page use its storage
usable == client /\ ~blocked

\* what a caller observes of a call that raises instead of returning
Thrown == "<exception>"

\* getCachedData without its catch clause: the SyntaxError of JSON.parse
\* reaches the caller
getCachedData_uncaught(key) ==
  IF ~client THEN NULL
  ELSE IF blocked THEN NULL
  ELSE LET cached == storage[getCacheKey(key)] IN
       IF cached = NoItem THEN NULL
       ELSE IF JSON_parse_throws(cached) THEN Thrown
       ELSE LET entry == JSON_parse(cached) IN
            IF now < entry.expiresAt THEN entry.data ELSE NULL

getCachedData(key) ==
  IF ~client THEN NULL
  ELSE IF blocked THEN NULL
  ELSE LET cached == storage[getCacheKey(key)] IN
       IF cached = NoItem THEN NULL
       ELSE IF JSON_parse_throws(cached) THEN NULL
       ELSE LET entry == JSON_parse(cached) IN
            IF now < entry.expiresAt THEN entry.data ELSE NULL

\* getExpiredCacheData with the expiry test of getCachedData copied into it
getExpiredCacheData_checksExpiry(key) ==
  IF ~client THEN NULL
  ELSE IF blocked THEN NULL
  ELSE LET cached == storage[getCacheKey(key)] IN
       IF cached = NoItem THEN NULL
       ELSE IF JSON_parse_throws(cached) THEN NULL
       ELSE LET entry == JSON_parse(cached) IN
            IF now < entry.expiresAt THEN entry.data ELSE NULL

getExpiredCacheData(key) ==
  IF ~client THEN NULL
  ELSE IF blocked THEN NULL
  ELSE LET cached == storage[getCacheKey(key)] IN
       IF cached = NoItem THEN NULL
       ELSE IF JSON_parse_throws(cached) THEN NULL
       ELSE JSON_parse(cached).data

\* isCacheValid with `now <= entry.expiresAt`: an entry counts as valid at
\* the millisecond it expires
isCacheValid_inclusive(key) ==
  IF ~client THEN FALSE
  ELSE IF blocked THEN FALSE
  ELSE LET cached == storage[getCacheKey(key)] IN
       IF cached = NoItem THEN FALSE
       ELSE IF JSON_parse_throws(cached) THEN FALSE
       ELSE now <= JSON_parse(cached).expiresAt

isCacheValid(key) ==
  IF ~client THEN FALSE
  ELSE IF blocked THEN FALSE
  ELSE LET cached == storage[getCacheKey(key)] IN
       IF cached = NoItem THEN FALSE
       ELSE IF JSON_parse_throws(cached) THEN FALSE
       ELSE now < JSON_parse(cached).expiresAt

\* the length of the text stored under a key; every stored text is given the
\* same length
ItemChars == 300

ZeroStats ==
  [totalEntries |-> 0, validEntries |-> 0, expiredEntries |-> 0,
   totalSize |-> "0 KB"]

\* Number.prototype.toFixed(2) of totalBytes / 1024
toFixed2_KB(totalBytes) ==
  LET hundredths == (totalBytes * 100 + 512) \div 1024
      frac == hundredths % 100
  IN ToString(hundredths \div 100) \o "." \o
     (IF frac < 10 THEN "0" ELSE "") \o ToString(frac)

\* getCacheStats without the startsWith test: every key of the storage is
\* counted in totalEntries
getCacheStats_countsEveryKey ==
  IF ~client THEN ZeroStats
  ELSE IF blocked THEN ZeroStats
  ELSE IF \E sk \in PrefixedKeys : JSON_parse_throws(storage[sk]) THEN ZeroStats
  ELSE LET totalEntries ==
             Cardinality({sk \in StorageKeys : storage[sk] # NoItem})
           validEntries ==
             Cardinality({sk \in PrefixedKeys :
                            now < JSON_parse(storage[sk]).expiresAt})
           expiredEntries ==
             Cardinality({sk \in PrefixedKeys :
                            ~(now < JSON_parse(storage[sk]).expiresAt)})
           totalBytes == Cardinality(PrefixedKeys) * ItemChars * 2
       IN [totalEntries |-> totalEntries,
           validEntries |-> validEntries,
           expiredEntries |-> expiredEntries,
           totalSize |-> IF totalBytes > 1024
                         THEN toFixed2_KB(totalBytes) \o " KB"
                         ELSE ToString(totalBytes) \o " B"]

\* getCacheStats with `now <= entry.expiresAt`: an entry counts as valid at
\* the millisecond it expires
getCacheStats_validAtExpiry ==
  IF ~client THEN ZeroStats
  ELSE IF blocked THEN ZeroStats
  ELSE IF \E sk \in PrefixedKeys : JSON_parse_throws(storage[sk]) THEN ZeroStats
  ELSE LET totalEntries == Cardinality(PrefixedKeys)
           validEntries ==
             Cardinality({sk \in PrefixedKeys :
                            now <= JSON_parse(storage[sk]).expiresAt})
           expiredEntries ==
             Cardinality({sk \in PrefixedKeys :
                            ~(now <= JSON_parse(storage[sk]).expiresAt)})
           totalBytes == Cardinality(PrefixedKeys) * ItemChars * 2
       IN [totalEntries |-> totalEntries,
           validEntries |-> validEntries,
           expiredEntries |-> expiredEntries,
           totalSize |-> IF totalBytes > 1024
                         THEN toFixed2_KB(totalBytes) \o " KB"
                         ELSE ToString(totalBytes) \o " B"]

\* the scan of getCacheStats: totalEntries counts every prefixed key, the
\* other counters the parsed entries; JSON.parse of an unparseable prefixed
\* item throws and the catch clause reports zeros
getCacheStats ==
  IF ~client THEN ZeroStats
  ELSE IF blocked THEN ZeroStats
  ELSE IF \E sk \in PrefixedKeys : JSON_parse_throws(storage[sk]) THEN ZeroStats
  ELSE LET totalEntries == Cardinality(PrefixedKeys)
           validEntries ==
             Cardinality({sk \in PrefixedKeys :
                            now < JSON_parse(storage[sk]).expiresAt})
           expiredEntries ==
             Cardinality({sk \in PrefixedKeys :
                            ~(now < JSON_parse(storage[sk]).expiresAt)})
           totalBytes == Cardinality(PrefixedKeys) * ItemChars * 2
       IN [totalEntries |-> totalEntries,
           validEntries |-> validEntries,
           expiredEntries |-> expiredEntries,
           totalSize |-> IF totalBytes > 1024
                         THEN toFixed2_KB(totalBytes) \o " KB"
                         ELSE ToString(totalBytes) \o " B"]

\* the storage after a read: getCachedData, getExpiredCacheData, isCacheValid
\* and getCacheStats call getItem and key only

\* getCachedData that removes the entry it finds expired
getCachedData_storage_evictsExpired(key) ==
  IF ~client THEN storage
  ELSE IF blocked THEN storage
  ELSE LET cached == storage[getCacheKey(key)] IN
       IF cached = NoItem THEN storage
       ELSE IF JSON_parse_throws(cached) THEN storage
       ELSE IF now < JSON_parse(cached).expiresAt THEN storage
       ELSE [storage EXCEPT ![getCacheKey(key)] = NoItem]

getCachedData_storage(key) == storage

getExpiredCacheData_storage(key) == storage

isCacheValid_storage(key) == storage

getCacheStats_storage == storage

-----------------------------------------------------------------------------
(* Cache manager: writes.  Each operator gives the storage after the call. *)

\* clearExpiredCache with `now > entry.expiresAt`: an entry that expires at
\* this very millisecond stays
clearExpiredCache_storage_strictlyAfter ==
  IF ~client THEN storage
  ELSE IF blocked THEN storage
  ELSE IF \E sk \in PrefixedKeys : JSON_parse_throws(storage[sk]) THEN storage
  ELSE LET keysToRemove ==
             {sk \in PrefixedKeys : now > JSON_parse(storage[sk]).expiresAt}
       IN [sk \in StorageKeys |->
             IF sk \in keysToRemove THEN NoItem ELSE storage[sk]]

\* clearExpiredCache with the try inside the loop: an unparseable item is
\* skipped and the expired entries of the other keys are removed
clearExpiredCache_storage_skipsUnparseable ==
  IF ~client THEN storage
  ELSE IF blocked THEN storage
  ELSE LET keysToRemove ==
             {sk \in PrefixedKeys :
                /\ ~JSON_parse_throws(storage[sk])
                /\ now >= JSON_parse(storage[sk]).expiresAt}
       IN [sk \in StorageKeys |->
             IF sk \in keysToRemove THEN NoItem ELSE storage[sk]]

\* the scan of clearExpiredCache: JSON.parse of an unparseable prefixed item
\* throws before any key is removed; otherwise the expired keys are removed
clearExpiredCache_storage ==
  IF ~client THEN storage
  ELSE IF blocked THEN storage
  ELSE IF \E sk \in PrefixedKeys : JSON_parse_throws(storage[sk]) THEN storage
  ELSE LET keysToRemove ==
             {sk \in PrefixedKeys : now >= JSON_parse(storage[sk]).expiresAt}
       IN [sk \in StorageKeys |->
             IF sk \in keysToRemove THEN NoItem ELSE storage[sk]]

\* setCachedData passing key instead of cacheKey to setItem: nothing is
\* stored under the prefixed key
setCachedData_storage_unprefixed(key, data, ttl, setItemResult) ==
  IF ~client THEN storage
  ELSE IF blocked THEN storage
  ELSE IF setItemResult = "ok"
       THEN storage
       ELSE clearExpiredCache_storage

\* setCachedData that leaves the ttl out of expiresAt
setCachedData_storage_ttlIgnored(key, data, ttl, setItemResult) ==
  IF ~client THEN storage
  ELSE IF blocked THEN storage
  ELSE IF setItemResult = "ok"
       THEN LET entry == [key |-> key, data |-> data,
                          timestamp |-> now, expiresAt |-> now]
            IN [storage EXCEPT ![getCacheKey(key)] = JSON_stringify(entry)]
       ELSE clearExpiredCache_storage

\* setCachedData without the isClient test and the try: it writes whatever
\* the state of the storage
setCachedData_storage_unguarded(key, data, ttl, setItemResult) ==
  LET entry == [key |-> key, data |-> data,
                timestamp |-> now, expiresAt |-> now + ttl]
  IN [storage EXCEPT ![getCacheKey(key)] = JSON_stringify(entry)]

\* setCachedData that merges into the entry it finds: the timestamp of the
\* first write is kept
setCachedData_storage_keepsTimestamp(key, data, ttl, setItemResult) ==
  IF ~client THEN storage
  ELSE IF blocked THEN storage
  ELSE IF setItemResult = "ok"
       THEN LET cached == storage[getCacheKey(key)]
                entry == [key |-> key, data |-> data,
                          timestamp |->
                            IF cached # NoItem /\ ~JSON_parse_throws(cached)
                            THEN JSON_parse(cached).timestamp ELSE now,
                          expiresAt |-> now + ttl]
            IN [storage EXCEPT ![getCacheKey(key)] = JSON_stringify(entry)]
       ELSE clearExpiredCache_storage

\* setCachedData that subtracts the ttl: expiresAt lies before timestamp
setCachedData_storage_ttlSubtracted(key, data, ttl, setItemResult) ==
  IF ~client THEN storage
  ELSE IF blocked THEN storage
  ELSE IF setItemResult = "ok"
       THEN LET entry == [key |-> key, data |-> data,
                          timestamp |-> now, expiresAt |-> now - ttl]
            IN [storage EXCEPT ![getCacheKey(key)] = JSON_stringify(entry)]
       ELSE clearExpiredCache_storage

\* setCachedData that writes the entry again after the recovery sweep
setCachedData_storage_retries(key, data, ttl, setItemResult) ==
  IF ~client THEN storage
  ELSE IF blocked THEN storage
  ELSE LET entry == [key |-> key, data |-> data,
                     timestamp |-> now, expiresAt |-> now + ttl]
       IN IF setItemResult = "ok"
          THEN [storage EXCEPT ![getCacheKey(key)] = JSON_stringify(entry)]
          ELSE [clearExpiredCache_storage EXCEPT
                  ![getCacheKey(key)] = JSON_stringify(entry)]

\* setCachedData that leaves an unexpired entry of the key in place: the
\* first writer wins
setCachedData_storage_keepsUnexpired(key, data, ttl, setItemResult) ==
  IF ~client THEN storage
  ELSE IF blocked THEN storage
  ELSE IF setItemResult = "ok"
       THEN LET cached == storage[getCacheKey(key)]
                entry == [key |-> key, data |-> data,
                          timestamp |-> now, expiresAt |-> now + ttl]
            IN IF cached # NoItem /\ ~JSON_parse_throws(cached)
                  /\ now < JSON_parse(cached).expiresAt
               THEN storage
               ELSE [storage EXCEPT ![getCacheKey(key)] = JSON_stringify(entry)]
       ELSE clearExpiredCache_storage

\* setItemResult: "ok", or "quota" when setItem throws QuotaExceededError
setCachedData_storage(key, data, ttl, setItemResult) ==
  IF ~client THEN storage
  ELSE IF blocked THEN storage
  ELSE IF setItemResult = "ok"
       THEN LET entry == [key |-> key, data |-> data,
                          timestamp |-> now, expiresAt |-> now + ttl]
            IN [storage EXCEPT ![getCacheKey(key)] = JSON_stringify(entry)]
       ELSE clearExpiredCache_storage

\* invalidateCache passing key instead of cacheKey to removeItem: the
\* prefixed item stays
invalidateCache_storage_unprefixed(key) == storage

invalidateCache_storage(key) ==
  IF ~client THEN storage
  ELSE IF blocked THEN storage
  ELSE [storage EXCEPT ![getCacheKey(key)] = NoItem]

\* clearAllCache as localStorage.clear()
clearAllCache_storage_clearsEverything ==
  IF ~client THEN storage
  ELSE IF blocked THEN storage
  ELSE [sk \in StorageKeys |-> NoItem]

clearAllCache_storage ==
  IF ~client THEN storage
  ELSE IF blocked THEN storage
  ELSE LET keysToRemove == PrefixedKeys
       IN [sk \in StorageKeys |->
             IF sk \in keysToRemove THEN NoItem ELSE storage[sk]]

\* ghost: the payload last passed to a setCachedData whose write took effect,
\* forgotten when the item of the key is removed or replaced by other text
writtenAfter(newStorage) ==
  [k \in Keys |->
     IF newStorage[getCacheKey(k)] = storage[getCacheKey(k)]
     THEN written[k] ELSE NoPayload]

-----------------------------------------------------------------------------
(* State *)

IdleCall == [pc |-> "idle"]

\* a hook of a component that is not on the page
NotRendered == [phase |-> "not rendered"]

Calls == {"a", "b"}

\* the calls of a caller that awaits each call before it makes the next
SequentialCalls == {"a"}

\* an entry that an earlier page load stored, before the browser was set to
\* block the storage of the page
EarlierEntry ==
  [key |-> "global-data", data |-> "{P1}", timestamp |-> 0,
   expiresAt |-> DEFAULT_TTL]

Init ==
  /\ client \in BOOLEAN
  /\ blocked \in (IF client THEN BOOLEAN ELSE {FALSE})
  /\ storage \in {[sk \in StorageKeys |->
                     IF sk = STORAGE_KEY THEN fav
                     ELSE IF sk = getCacheKey("global-data") THEN earlier
                     ELSE NoItem] :
                  fav \in {NoItem} \cup
                          (IF client THEN {JSON_stringify(<<"bitcoin">>)}
                           ELSE {}),
                  earlier \in {NoItem} \cup
                              (IF blocked THEN {JSON_stringify(EarlierEntry)}
                               ELSE {})}
  /\ now = 0
  /\ written = [k \in Keys |-> NoPayload]
  /\ op = [name |-> "init"]
  /\ calls = [c \in Calls |-> IdleCall]
  /\ hook = NotRendered
  /\ details = NotRendered
  /\ favorites = NotRendered

-----------------------------------------------------------------------------
(* Store operations called directly *)

set(key, data, ttl, setItemResult) ==
  LET newStorage == setCachedData_storage(key, data, ttl, setItemResult) IN
  /\ storage' = newStorage
  /\ written' = IF usable /\ setItemResult = "ok"
                THEN [written EXCEPT ![key] = data]
                ELSE writtenAfter(newStorage)
  /\ op' = [name |-> "set", key |-> key, data |-> data, ttl |-> ttl,
            setItemResult |-> IF usable THEN setItemResult ELSE "skipped",
            replaced |-> usable /\ storage[getCacheKey(key)] # NoItem]
  /\ UNCHANGED <<react, client, blocked, now, calls>>

invalidate(key) ==
  LET newStorage == invalidateCache_storage(key) IN
  /\ storage' = newStorage
  /\ written' = writtenAfter(newStorage)
  /\ op' = [name |-> "invalidate", key |-> key,
            removed |-> usable /\ storage[getCacheKey(key)] # NoItem]
  /\ UNCHANGED <<react, client, blocked, now, calls>>

clearAll ==
  LET newStorage == clearAllCache_storage IN
  /\ storage' = newStorage
  /\ written' = writtenAfter(newStorage)
  /\ op' = [name |-> "clearAll",
            removed |-> IF usable THEN Cardinality(PrefixedKeys) ELSE 0]
  /\ UNCHANGED <<react, client, blocked, now, calls>>

sweepExpired ==
  LET newStorage == clearExpiredCache_storage IN
  /\ storage' = newStorage
  /\ written' = writtenAfter(newStorage)
  /\ op' = [name |-> "sweepExpired",
            removed |-> Cardinality({sk \in StorageKeys :
                                       newStorage[sk] # storage[sk]})]
  /\ UNCHANGED <<react, client, blocked, now, calls>>

get(key) ==
  LET newStorage == getCachedData_storage(key) IN
  /\ storage' = newStorage
  /\ written' = writtenAfter(newStorage)
  /\ op' = [name |-> "get", key |-> key, value |-> getCachedData(key)]
  /\ UNCHANGED <<react, client, blocked, now, calls>>

getStale(key) ==
  LET newStorage == getExpiredCacheData_storage(key) IN
  /\ storage' = newStorage
  /\ written' = writtenAfter(newStorage)
  /\ op' = [name |-> "getStale", key |-> key,
            value |-> getExpiredCacheData(key)]
  /\ UNCHANGED <<react, client, blocked, now, calls>>

isValid(key) ==
  LET newStorage == isCacheValid_storage(key) IN
  /\ storage' = newStorage
  /\ written' = writtenAfter(newStorage)
  /\ op' = [name |-> "isValid", key |-> key, valid |-> isCacheValid(key)]
  /\ UNCHANGED <<react, client, blocked, now, calls>>

stats ==
  LET newStorage == getCacheStats_storage IN
  /\ storage' = newStorage
  /\ written' = writtenAfter(newStorage)
  /\ op' = [name |-> "stats", stats |-> getCacheStats]
  /\ UNCHANGED <<react, client, blocked, now, calls>>

-----------------------------------------------------------------------------
(* Environment *)

\* Date.now() advances
Tick ==
  /\ now + TickMs <= MaxTicks * TickMs
  /\ now' = now + TickMs
  /\ op' = [name |-> "tick"]
  /\ UNCHANGED <<react, client, blocked, storage, written, calls>>

\* use-favorites saves the list under STORAGE_KEY
saveFavorites(list) ==
  /\ usable
  /\ storage' = [storage EXCEPT ![STORAGE_KEY] = JSON_stringify(list)]
  /\ written' = written
  /\ op' = [name |-> "saveFavorites"]
  /\ UNCHANGED <<react, client, blocked, now, calls>>

\* something else of the origin leaves unparseable text under a cache key
corruptEntry(key) ==
  /\ usable
  /\ storage[getCacheKey(key)] # Garbage
  /\ storage' = [storage EXCEPT ![getCacheKey(key)] = Garbage]
  /\ written' = writtenAfter(storage')
  /\ op' = [name |-> "corruptEntry"]
  /\ UNCHANGED <<react, client, blocked, now, calls>>

-----------------------------------------------------------------------------
(* Fetch client.  A call of fetchWithCache is suspended at `await fetch(url)` *)
(* (pc "fetch") and at `await response.json()` (pc "json"); when its promise  *)
(* settles the slot is idle again and op holds what the caller received.      *)

\* HTTP statuses the upstream answers with
Statuses == {200, 429, 500}

statusText(status) ==
  CASE status = 200 -> "OK"
    [] status = 429 -> "Too Many Requests"
    [] status = 500 -> "Internal Server Error"

\* Response.ok
response_ok(status) == status >= 200 /\ status <= 299

\* the errors thrown at lines 52 and 54
RateLimitError == [name |-> "Error", message |-> RATE_LIMIT_MESSAGE]

ApiError(status) ==
  [name |-> "Error",
   message |-> "API Error: " \o ToString(status) \o " " \o statusText(status)]

\* fetch(url) rejects when the request cannot complete
FetchTypeError == [name |-> "TypeError", message |-> "Failed to fetch"]

\* response.json() rejects when the body is not JSON
JsonSyntaxError == [name |-> "SyntaxError", message |-> "Unexpected token"]

\* what the store holds for a key when a call starts (history, kept per call)
entryState(key) ==
  LET cached == storage[getCacheKey(key)] IN
  IF ~usable THEN "none"
  ELSE IF cached = NoItem THEN "none"
  ELSE IF JSON_parse_throws(cached) THEN "garbage"
  ELSE IF now < JSON_parse(cached).expiresAt THEN "valid" ELSE "expired"

\* call c waits for the response of its request or for the body
inFlight(c) == calls[c].pc \in {"fetch", "json"}

\* another call for the key is in flight (history, kept per call: the call
\* was issued during the other one)
overlapping(c, cacheKey) ==
  \E other \in Calls \ {c} : inFlight(other) /\ calls[other].key = cacheKey

\* the promise of call c resolves with value; a call for the same key that
\* is still in flight keeps what this one returned from its response
\* (history)
returns(c, response, body, cacheWrite, value) ==
  /\ calls' = [o \in Calls |->
                IF o = c THEN IdleCall
                ELSE IF response = "200" /\ inFlight(o)
                        /\ calls[o].key = calls[c].key
                THEN [calls[o] EXCEPT !.peerReturned = value]
                ELSE calls[o]]
  /\ op' = [name |-> "returned", call |-> c, key |-> calls[c].key,
            forceRefresh |-> calls[c].forceRefresh,
            atCall |-> calls[c].atCall, requests |-> calls[c].requests,
            response |-> response, body |-> body,
            cacheWrite |-> cacheWrite, value |-> value,
            overlaps |-> calls[c].overlaps,
            peerReturned |-> calls[c].peerReturned,
            entryRemoved |-> calls[c].entryRemoved]

\* the promise of call c rejects with error
throws(c, response, error) ==
  /\ calls' = [calls EXCEPT ![c] = IdleCall]
  /\ op' = [name |-> "threw", call |-> c, key |-> calls[c].key,
            forceRefresh |-> calls[c].forceRefresh,
            atCall |-> calls[c].atCall, requests |-> calls[c].requests,
            response |-> response, body |-> NoPayload,
            cacheWrite |-> "none", error |-> error,
            overlaps |-> calls[c].overlaps,
            peerReturned |-> calls[c].peerReturned,
            entryRemoved |-> calls[c].entryRemoved]

\* the cache lookup of fetchWithCache without the forceRefresh test
cacheFirst_ignoresForceRefresh(cacheKey, forceRefresh) ==
  getCachedData(cacheKey)

\* lines 40-45: the value that fetchWithCache returns from the cache; a
\* falsy result means that it goes on to the network
cacheFirst(cacheKey, forceRefresh) ==
  IF ~forceRefresh THEN getCachedData(cacheKey) ELSE NULL

\* fetchWithCache with single-flight: a call that misses while another call
\* for the same key is in flight waits for that call's response and issues
\* no request of its own
fetchWithCache_singleFlight(c, cacheKey, forceRefresh) ==
  /\ calls[c].pc = "idle"
  /\ LET cached == cacheFirst(cacheKey, forceRefresh)
         joins == \E other \in Calls \ {c} :
                    inFlight(other) /\ calls[other].key = cacheKey
     IN
     IF Truthy(cached)
     THEN /\ calls' = calls
          /\ op' = [name |-> "returned", call |-> c, key |-> cacheKey,
                    forceRefresh |-> forceRefresh,
                    atCall |-> entryState(cacheKey), requests |-> 0,
                    response |-> "none", body |-> NoPayload,
                    cacheWrite |-> "none", value |-> cached,
                    overlaps |-> overlapping(c, cacheKey),
                    peerReturned |-> NoPayload, entryRemoved |-> FALSE]
     ELSE /\ calls' = [calls EXCEPT ![c] =
                         [pc |-> "fetch", key |-> cacheKey,
                          forceRefresh |-> forceRefresh,
                          atCall |-> entryState(cacheKey),
                          requests |-> IF joins THEN 0 ELSE 1,
                          overlaps |-> overlapping(c, cacheKey),
                          peerReturned |-> NoPayload,
                          entryRemoved |-> FALSE]]
          /\ op' = [name |-> "requested", call |-> c]
  /\ UNCHANGED <<react, client, blocked, storage, now, written>>

\* lines 34-48: the cache lookup, then the request is issued
fetchWithCache(c, cacheKey, forceRefresh) ==
  /\ calls[c].pc = "idle"
  /\ LET cached == cacheFirst(cacheKey, forceRefresh) IN
     IF Truthy(cached)
     THEN /\ calls' = calls
          /\ op' = [name |-> "returned", call |-> c, key |-> cacheKey,
                    forceRefresh |-> forceRefresh,
                    atCall |-> entryState(cacheKey), requests |-> 0,
                    response |-> "none", body |-> NoPayload,
                    cacheWrite |-> "none", value |-> cached,
                    overlaps |-> overlapping(c, cacheKey),
                    peerReturned |-> NoPayload, entryRemoved |-> FALSE]
     ELSE /\ calls' = [calls EXCEPT ![c] =
                         [pc |-> "fetch", key |-> cacheKey,
                          forceRefresh |-> forceRefresh,
                          atCall |-> entryState(cacheKey), requests |-> 1,
                          overlaps |-> overlapping(c, cacheKey),
                          peerReturned |-> NoPayload,
                          entryRemoved |-> FALSE]]
          /\ op' = [name |-> "requested", call |-> c]
  /\ UNCHANGED <<react, client, blocked, storage, now, written>>

\* a catch block that issues the request once more before it gives up
catchBlock_retriesOnce(c, response, error) ==
  /\ LET expiredCache == getExpiredCacheData(calls[c].key) IN
     IF Truthy(expiredCache)
     THEN returns(c, response, NoPayload, "none", expiredCache)
     ELSE IF calls[c].requests < 2
     THEN /\ calls' = [calls EXCEPT ![c].pc = "fetch",
                                     ![c].requests = @ + 1]
          /\ op' = [name |-> "requested", call |-> c]
     ELSE throws(c, response, error)
  /\ UNCHANGED <<react, client, blocked, storage, now, written>>

\* a catch block that drops the entry of the key when it has nothing to
\* serve
catchBlock_evictsOnThrow(c, response, error) ==
  LET expiredCache == getExpiredCacheData(calls[c].key) IN
  IF Truthy(expiredCache)
  THEN /\ returns(c, response, NoPayload, "none", expiredCache)
       /\ UNCHANGED <<react, client, blocked, storage, now, written>>
  ELSE /\ throws(c, response, error)
       /\ storage' = invalidateCache_storage(calls[c].key)
       /\ written' = writtenAfter(storage')
       /\ UNCHANGED <<react, client, blocked, now>>

\* lines 63-72: the catch block
catchBlock(c, response, error) ==
  /\ LET expiredCache == getExpiredCacheData(calls[c].key) IN
     IF Truthy(expiredCache)
     THEN returns(c, response, NoPayload, "none", expiredCache)
     ELSE throws(c, response, error)
  /\ UNCHANGED <<react, client, blocked, storage, now, written>>

\* line 48 resumes with a response: lines 50-55
fetchResolves(c, status) ==
  /\ calls[c].pc = "fetch"
  /\ IF ~response_ok(status)
     THEN IF status = 429
          THEN catchBlock(c, ToString(status), RateLimitError)
          ELSE catchBlock(c, ToString(status), ApiError(status))
     ELSE /\ calls' = [calls EXCEPT ![c].pc = "json"]
          /\ op' = [name |-> "responded", call |-> c]
          /\ UNCHANGED <<react, client, blocked, storage, now, written>>

\* line 48 resumes with a rejection
fetchRejects(c) ==
  /\ calls[c].pc = "fetch"
  /\ catchBlock(c, "failed", FetchTypeError)

\* a call that does not write when its entry was removed while it waited
jsonResolves_respectsRemoval(c, data, setItemResult) ==
  /\ calls[c].pc = "json"
  /\ LET newStorage ==
           IF calls[c].entryRemoved THEN storage
           ELSE setCachedData_storage(calls[c].key, data, DEFAULT_TTL,
                                      setItemResult)
     IN /\ storage' = newStorage
        /\ written' = IF usable /\ setItemResult = "ok"
                         /\ ~calls[c].entryRemoved
                      THEN [written EXCEPT ![calls[c].key] = data]
                      ELSE writtenAfter(newStorage)
  /\ returns(c, "200", data, IF usable THEN setItemResult ELSE "skipped",
             data)
  /\ UNCHANGED <<react, client, blocked, now>>

\* line 57 resumes with the parsed body: lines 59-62
jsonResolves(c, data, setItemResult) ==
  /\ calls[c].pc = "json"
  /\ LET newStorage ==
           setCachedData_storage(calls[c].key, data, DEFAULT_TTL,
                                 setItemResult)
     IN /\ storage' = newStorage
        /\ written' = IF usable /\ setItemResult = "ok"
                      THEN [written EXCEPT ![calls[c].key] = data]
                      ELSE writtenAfter(newStorage)
  /\ returns(c, "200", data, IF usable THEN setItemResult ELSE "skipped",
             data)
  /\ UNCHANGED <<react, client, blocked, now>>

\* line 57 resumes with a rejection: the body is not JSON
jsonRejects(c) ==
  /\ calls[c].pc = "json"
  /\ catchBlock(c, "200 unparseable", JsonSyntaxError)

\* the calls after the entries of the keys in removedKeys were removed: a
\* call in flight for such a key keeps that its entry went (history)
callsAfterRemoval(removedKeys) ==
  [c \in Calls |->
     IF inFlight(c) /\ calls[c].key \in removedKeys
     THEN [calls[c] EXCEPT !.entryRemoved = TRUE]
     ELSE calls[c]]

\* lines 166-168 of the API client
clearCache ==
  LET newStorage == clearAllCache_storage IN
  /\ storage' = newStorage
  /\ written' = writtenAfter(newStorage)
  /\ op' = [name |-> "clearAll",
            removed |-> IF usable THEN Cardinality(PrefixedKeys) ELSE 0]
  /\ calls' = callsAfterRemoval({k \in Keys :
                                   entryState(k) \in {"valid", "expired"}})
  /\ UNCHANGED <<react, client, blocked, now>>

\* lines 175-177 of the API client
invalidateCacheEntry(key) ==
  LET newStorage == invalidateCache_storage(key) IN
  /\ storage' = newStorage
  /\ written' = writtenAfter(newStorage)
  /\ op' = [name |-> "invalidate", key |-> key,
            removed |-> usable /\ storage[getCacheKey(key)] # NoItem]
  /\ calls' = callsAfterRemoval({k \in {key} :
                                   entryState(k) \in {"valid", "expired"}})
  /\ UNCHANGED <<react, client, blocked, now>>

-----------------------------------------------------------------------------

NextFetch ==
  \/ \E c \in SequentialCalls, k \in Keys, f \in BOOLEAN : fetchWithCache(c, k, f)
  \/ \E c \in SequentialCalls, s \in Statuses : fetchResolves(c, s)
  \/ \E c \in SequentialCalls : fetchRejects(c)
  \/ \E c \in SequentialCalls, d \in Payloads, r \in {"ok", "quota"} :
       jsonResolves(c, d, r)
  \/ \E c \in SequentialCalls : jsonRejects(c)
  \/ \E k \in Keys : invalidateCacheEntry(k)
  \/ clearCache
  \/ \E k \in Keys : corruptEntry(k)
  \/ Tick

SpecFetch == Init /\ [][NextFetch]_vars

\* two callers that do not wait for each other, on one key
OverlapKeys == {"global-data"}

OverlapPayloads == {"{P1}", "{P2}"}

NextOverlap ==
  \/ \E c \in Calls, k \in OverlapKeys, f \in BOOLEAN :
       fetchWithCache(c, k, f)
  \/ \E c \in Calls, s \in Statuses : fetchResolves(c, s)
  \/ \E c \in Calls : fetchRejects(c)
  \/ \E c \in Calls, d \in OverlapPayloads, r \in {"ok", "quota"} :
       jsonResolves(c, d, r)
  \/ \E c \in Calls : jsonRejects(c)
  \/ Tick

SpecOverlap == Init /\ [][NextOverlap]_vars

-----------------------------------------------------------------------------

Next ==
  \/ \E k \in Keys, d \in Payloads, t \in TTLs, r \in {"ok", "quota"} :
       set(k, d, t, r)
  \/ \E k \in Keys : invalidate(k)
  \/ clearAll
  \/ sweepExpired
  \/ \E k \in Keys : get(k)
  \/ \E k \in Keys : getStale(k)
  \/ \E k \in Keys : isValid(k)
  \/ stats
  \/ Tick
  \/ \E f \in FavoriteLists : saveFavorites(f)
  \/ \E k \in Keys : corruptEntry(k)

Spec == Init /\ [][Next]_vars

-----------------------------------------------------------------------------
(* Cache keys of the entry points.  A call of an entry point computes its   *)
(* cache key from its parameters (pc "key") before it delegates to          *)
(* fetchWithCache.                                                          *)

\* a JavaScript number or string passed as a parameter
Num(n) == [type |-> "number", num |-> n]

Str(t) == [type |-> "string", str |-> t]

\* ${v} in a template literal: ToString of the value
templateLiteral(v) == IF v.type = "number" THEN ToString(v.num) ELSE v.str

\* parameter values of the calls
Pages == {1, 2}

PerPages == {50, 100}

Currencies == {"usd", "eur"}

Ids == {"bitcoin", "bitcoin-cash", "a", "a-1"}

DaysValues == {Num(1), Num(7), Str("max"), Str("1-7")}

getCryptoList_cacheKey(page, perPage, currency) ==
  "crypto-list-" \o templateLiteral(Num(page)) \o "-" \o
  templateLiteral(Num(perPage)) \o "-" \o templateLiteral(Str(currency))

getCryptoDetails_cacheKey(id) ==
  "crypto-details-" \o templateLiteral(Str(id))

\* getCryptoMarketChart with the days left out of the key
getCryptoMarketChart_cacheKey_withoutDays(id, days, currency) ==
  "crypto-chart-" \o templateLiteral(Str(id)) \o "-" \o
  templateLiteral(Str(currency))

getCryptoMarketChart_cacheKey(id, days, currency) ==
  "crypto-chart-" \o templateLiteral(Str(id)) \o "-" \o
  templateLiteral(days) \o "-" \o templateLiteral(Str(currency))

getGlobalData_cacheKey == "global-data"

getTrendingCoins_cacheKey == "trending-coins"

\* call c has computed cacheKey for request
keyComputed(c, request, cacheKey) ==
  /\ calls[c].pc \in {"idle", "key"}
  /\ calls' = [calls EXCEPT ![c] = [pc |-> "key", request |-> request,
                                     cacheKey |-> cacheKey]]
  /\ op' = [name |-> request.fn, call |-> c, cacheKey |-> cacheKey]
  /\ UNCHANGED <<react, client, blocked, storage, now, written>>

getCryptoList(c, page, perPage, currency) ==
  keyComputed(c, [fn |-> "getCryptoList", page |-> page,
                  perPage |-> perPage, currency |-> currency],
              getCryptoList_cacheKey(page, perPage, currency))

getCryptoDetails(c, id) ==
  keyComputed(c, [fn |-> "getCryptoDetails", id |-> id],
              getCryptoDetails_cacheKey(id))

getCryptoMarketChart(c, id, days, currency) ==
  keyComputed(c, [fn |-> "getCryptoMarketChart", id |-> id, days |-> days,
                  currency |-> currency],
              getCryptoMarketChart_cacheKey(id, days, currency))

getGlobalData(c) ==
  keyComputed(c, [fn |-> "getGlobalData"], getGlobalData_cacheKey)

getTrendingCoins(c) ==
  keyComputed(c, [fn |-> "getTrendingCoins"], getTrendingCoins_cacheKey)

InitKeys ==
  /\ client = TRUE
  /\ blocked = FALSE
  /\ storage = [sk \in StorageKeys |-> NoItem]
  /\ now = 0
  /\ written = [k \in Keys |-> NoPayload]
  /\ op = [name |-> "init"]
  /\ calls = [c \in Calls |-> IdleCall]
  /\ hook = NotRendered
  /\ details = NotRendered
  /\ favorites = NotRendered

NextKeys ==
  \/ \E c \in Calls, page \in Pages, perPage \in PerPages,
        currency \in Currencies : getCryptoList(c, page, perPage, currency)
  \/ \E c \in Calls, id \in Ids : getCryptoDetails(c, id)
  \/ \E c \in Calls, id \in Ids, days \in DaysValues,
        currency \in Currencies : getCryptoMarketChart(c, id, days, currency)
  \/ \E c \in Calls : getGlobalData(c)
  \/ \E c \in Calls : getTrendingCoins(c)

SpecKeys == InitKeys /\ [][NextKeys]_vars

-----------------------------------------------------------------------------
(* Data hooks useCryptos, useGlobalData and useTrending (which has no       *)
(* refresh interval).  The hook is rendered with its                        *)
(* useState values (phase "rendered"), its effect runs (phase "mounted"),   *)
(* and its cleanup runs when the component leaves the page (phase           *)
(* "unmounted").  A call of the entry point is pending until its promise    *)
(* settles; what fetchWithCache does in between is in SpecFetch.            *)

\* the clock of the hooks advances in steps of HookTickMs, at most
\* MaxHookTicks times
MaxHookTicks == 4

HookTickMs == 30000

\* the calls of its fetch function that one hook makes
MaxFetches == 3

\* values of the refreshInterval option: disabled, and the default
RefreshIntervals == {0, 60000}

DataHooks == {"useCryptos", "useGlobalData", "useTrending"}

\* what the entry point resolves with: the JSON body null, or an object
Responses == {NULL, "{P1}"}

NoTimer == -1

\* lastUpdated of useCryptos before the first response: null
NoDate == -1

\* errors that the entry point rejects with: an Error of the fetch client
\* and the TypeError of a request that did not complete
HookErrors == {RateLimitError, FetchTypeError}

\* how the entry point came by the response it resolves with: from the
\* network, from an unexpired entry, or from the entry that the stale
\* fallback found after a failed request
Vias == {"network", "cache", "stale"}

\* the age of the entry that a cache hit or a stale fallback returns
CachedAge == HookTickMs

\* useState initial values, lines 39-42 and 149-151
initialData(fn) == IF fn = "useGlobalData" THEN NULL ELSE "[]"

\* reading response.data of null throws
NullDataTypeError ==
  [name |-> "TypeError",
   message |-> "Cannot read properties of null (reading 'data')"]

\* reading data.coins of null throws
NullCoinsTypeError ==
  [name |-> "TypeError",
   message |-> "Cannot read properties of null (reading 'coins')"]

\* err instanceof Error ? err.message : fallback
errorMessage(err, fallback) ==
  IF err.name \in {"Error", "TypeError", "SyntaxError"}
  THEN err.message ELSE fallback

fallbackMessage(fn) ==
  IF fn = "useCryptos" THEN "Error fetching data"
  ELSE IF fn = "useGlobalData" THEN "Error fetching global data"
  ELSE "Error fetching trending"

InitHooks ==
  /\ client = TRUE
  /\ blocked = FALSE
  /\ storage = [sk \in StorageKeys |-> NoItem]
  /\ now = 0
  /\ written = [k \in Keys |-> NoPayload]
  /\ op = [name |-> "init"]
  /\ calls = [c \in Calls |-> IdleCall]
  /\ details = NotRendered
  /\ favorites = NotRendered
  /\ hook \in {[phase |-> "rendered", fn |-> fn,
                 refreshInterval |-> refreshInterval,
                 clock |-> 0, mountedAt |-> 0, timerDue |-> NoTimer,
                 data |-> initialData(fn), error |-> NULL, loading |-> TRUE,
                 lastUpdated |-> NoDate, obtainedAt |-> NoDate,
                 fetches |-> <<>>] :
               fn \in DataHooks, refreshInterval \in RefreshIntervals}
  /\ hook.fn = "useTrending" => hook.refreshInterval = 0

\* lines 48-54 and 157-163: the part of fetchCryptos / fetchData that runs
\* before the await, as the hook record it leaves
fetchStarted(trigger, forceRefresh) ==
  [hook EXCEPT
     !.error = NULL,
     !.loading = IF forceRefresh THEN TRUE ELSE @,
     !.fetches = Append(@, [trigger |-> trigger,
                            forceRefresh |-> forceRefresh,
                            at |-> hook.clock, outcome |-> "pending"])]

\* lines 64-71 and 173-180: the effect
mount ==
  /\ hook.phase = "rendered"
  /\ hook' = [fetchStarted("mount", FALSE) EXCEPT
                !.phase = "mounted",
                !.mountedAt = hook.clock,
                !.timerDue = IF hook.refreshInterval > 0
                             THEN hook.clock + hook.refreshInterval
                             ELSE NoTimer]
  /\ op' = [name |-> "mount"]
  /\ UNCHANGED <<details, favorites, client, blocked, storage, now, written,
                 calls>>

\* the interval callback with forceRefresh = true
intervalFires_forced ==
  /\ hook.timerDue # NoTimer
  /\ hook.timerDue = hook.clock
  /\ Len(hook.fetches) < MaxFetches
  /\ hook' = [fetchStarted("interval", TRUE) EXCEPT
                !.timerDue = hook.timerDue + hook.refreshInterval]
  /\ op' = [name |-> "intervalFires"]
  /\ UNCHANGED <<details, favorites, client, blocked, storage, now, written,
                 calls>>

\* lines 68 and 177: the callback of setInterval
intervalFires ==
  /\ hook.timerDue # NoTimer
  /\ hook.timerDue = hook.clock
  /\ Len(hook.fetches) < MaxFetches
  /\ hook' = [fetchStarted("interval", FALSE) EXCEPT
                !.timerDue = hook.timerDue + hook.refreshInterval]
  /\ op' = [name |-> "intervalFires"]
  /\ UNCHANGED <<details, favorites, client, blocked, storage, now, written,
                 calls>>

\* the market page: the Refresh and Retry buttons call refetch(true)
handleRefresh ==
  /\ hook.phase = "mounted"
  /\ Len(hook.fetches) < MaxFetches
  /\ hook' = fetchStarted("user", TRUE)
  /\ op' = [name |-> "handleRefresh"]
  /\ UNCHANGED <<details, favorites, client, blocked, storage, now, written,
                 calls>>

\* a hook that sets lastUpdated only for a response from the network
fetchResolved_datesNetworkOnly(i, response, via) ==
  /\ i \in 1..Len(hook.fetches)
  /\ hook.fetches[i].outcome = "pending"
  /\ hook.fn = "useCryptos"
  /\ hook.phase # "unmounted"
  /\ hook' = [hook EXCEPT
                !.data = response,
                !.lastUpdated = IF via = "network" THEN hook.clock ELSE @,
                !.obtainedAt = IF via = "network" THEN hook.clock
                               ELSE hook.clock - CachedAge,
                !.loading = FALSE,
                !.fetches[i].outcome = "data"]
  /\ op' = [name |-> "fetchResolved", fetch |-> i, response |-> response]
  /\ UNCHANGED <<details, favorites, client, blocked, storage, now, written,
                 calls>>

\* lines 54-56, 59-61 and 163-164, 167-169: the await resumes with the
\* response; React ignores the state updates of an unmounted component
fetchResolved(i, response, via) ==
  /\ i \in 1..Len(hook.fetches)
  /\ hook.fetches[i].outcome = "pending"
  /\ IF hook.phase = "unmounted"
     THEN hook' = [hook EXCEPT !.fetches[i].outcome = "ignored"]
     ELSE IF hook.fn # "useCryptos" /\ response = NULL
     THEN hook' = [hook EXCEPT
                     !.error = errorMessage(IF hook.fn = "useGlobalData"
                                            THEN NullDataTypeError
                                            ELSE NullCoinsTypeError,
                                            fallbackMessage(hook.fn)),
                     !.loading = FALSE,
                     !.fetches[i].outcome = "error"]
     ELSE IF hook.fn # "useCryptos"
     THEN hook' = [hook EXCEPT
                     !.data = IF hook.fn = "useGlobalData"
                              THEN response \o ".data"
                              ELSE response \o ".coins",
                     !.loading = FALSE,
                     !.fetches[i].outcome = "data"]
     ELSE hook' = [hook EXCEPT
                     !.data = response,
                     !.lastUpdated = hook.clock,
                     !.obtainedAt = IF via = "network" THEN hook.clock
                                    ELSE hook.clock - CachedAge,
                     !.loading = FALSE,
                     !.fetches[i].outcome = "data"]
  /\ op' = [name |-> "fetchResolved", fetch |-> i, response |-> response]
  /\ UNCHANGED <<details, favorites, client, blocked, storage, now, written,
                 calls>>

\* the catch block without the finally clause
fetchRejected_withoutFinally(i, err) ==
  /\ i \in 1..Len(hook.fetches)
  /\ hook.fetches[i].outcome = "pending"
  /\ IF hook.phase = "unmounted"
     THEN hook' = [hook EXCEPT !.fetches[i].outcome = "ignored"]
     ELSE hook' = [hook EXCEPT
                     !.error = errorMessage(err, fallbackMessage(hook.fn)),
                     !.fetches[i].outcome = "error"]
  /\ op' = [name |-> "fetchRejected", fetch |-> i, message |-> err.message]
  /\ UNCHANGED <<details, favorites, client, blocked, storage, now, written,
                 calls>>

\* lines 57-61 and 165-169: the await resumes with the error thrown by
\* fetchWithCache
fetchRejected(i, err) ==
  /\ i \in 1..Len(hook.fetches)
  /\ hook.fetches[i].outcome = "pending"
  /\ IF hook.phase = "unmounted"
     THEN hook' = [hook EXCEPT !.fetches[i].outcome = "ignored"]
     ELSE hook' = [hook EXCEPT
                     !.error = errorMessage(err, fallbackMessage(hook.fn)),
                     !.loading = FALSE,
                     !.fetches[i].outcome = "error"]
  /\ op' = [name |-> "fetchRejected", fetch |-> i, message |-> err.message]
  /\ UNCHANGED <<details, favorites, client, blocked, storage, now, written,
                 calls>>

\* a cleanup that leaves the interval running
unmount_keepsTimer ==
  /\ hook.phase = "mounted"
  /\ hook' = [hook EXCEPT !.phase = "unmounted"]
  /\ op' = [name |-> "unmount"]
  /\ UNCHANGED <<details, favorites, client, blocked, storage, now, written,
                 calls>>

\* lines 69 and 178: the cleanup of the effect
unmount ==
  /\ hook.phase = "mounted"
  /\ hook' = [hook EXCEPT !.phase = "unmounted", !.timerDue = NoTimer]
  /\ op' = [name |-> "unmount"]
  /\ UNCHANGED <<details, favorites, client, blocked, storage, now, written,
                 calls>>

\* time passes; a timer that is due fires before the clock moves on
HookTick ==
  /\ hook.clock + HookTickMs <= MaxHookTicks * HookTickMs
  /\ hook.timerDue # hook.clock
  /\ hook' = [hook EXCEPT !.clock = @ + HookTickMs]
  /\ op' = [name |-> "tick"]
  /\ UNCHANGED <<details, favorites, client, blocked, storage, now, written,
                 calls>>

NextHooks ==
  \/ mount
  \/ intervalFires
  \/ handleRefresh
  \/ \E i \in 1..MaxFetches, response \in Responses, via \in Vias :
       fetchResolved(i, response, via)
  \/ \E i \in 1..MaxFetches, err \in HookErrors : fetchRejected(i, err)
  \/ unmount
  \/ HookTick

SpecHooks == InitHooks /\ [][NextHooks]_vars

\* the promise of some pending call settles
settles ==
  \/ \E i \in 1..MaxFetches, response \in Responses, via \in Vias :
       fetchResolved(i, response, via)
  \/ \E i \in 1..MaxFetches, err \in HookErrors : fetchRejected(i, err)

\* every network request completes in the end, so every pending call settles
SpecHooksFair == SpecHooks /\ WF_vars(settles)

-----------------------------------------------------------------------------
(* Hooks useCryptoDetails and useCryptoChart.  Their effect runs at mount   *)
(* and whenever the id (or, for the chart, an option) changes; it has no    *)
(* cleanup.  The response of a request names the id and the days it is for. *)

\* the calls of its fetch function that one hook makes
MaxDetailFetches == 3

DetailHooks == {"useCryptoDetails", "useCryptoChart"}

\* the id passed to the hook; null skips the fetch
DetailIds == {NULL, "bitcoin", "ethereum"}

\* the time ranges the price chart offers; useCryptoDetails has no option
\* (days 0)
ChartDays == {1, 7}

NoData == [id |-> NULL, days |-> 0]

\* what the entry point resolves with for a request
responseFor(request) == [id |-> request.id, days |-> request.days]

\* lines 215-226: the points of the chart carry the prices of the response
formatChartData(data) == [prices |-> data]

NoChartData == [prices |-> NoData]

InitDetails ==
  /\ client = TRUE
  /\ blocked = FALSE
  /\ storage = [sk \in StorageKeys |-> NoItem]
  /\ now = 0
  /\ written = [k \in Keys |-> NoPayload]
  /\ op = [name |-> "init"]
  /\ calls = [c \in Calls |-> IdleCall]
  /\ hook = NotRendered
  /\ favorites = NotRendered
  /\ details \in {[phase |-> "rendered", fn |-> fn, id |-> id, days |-> days,
                    data |-> NoData, chartData |-> NoChartData,
                    error |-> NULL, loading |-> FALSE, fetches |-> <<>>] :
                  fn \in DetailHooks, id \in DetailIds, days \in {0} \cup ChartDays}
  /\ (details.fn = "useCryptoDetails") = (details.days = 0)

\* use-crypto-details lines 35-41 and 51-57, use-global-data lines 257-263
\* and 274-281: the effect, up to the await of its call
effect(h) ==
  IF h.id # NULL
  THEN [h EXCEPT
          !.loading = TRUE,
          !.error = NULL,
          !.fetches = Append(@, [id |-> h.id, days |-> h.days,
                                 outcome |-> "pending"])]
  ELSE [h EXCEPT !.data = NoData, !.chartData = NoChartData]

\* the component with the hook is put on the page
detailsMount ==
  /\ details.phase = "rendered"
  /\ details' = effect([details EXCEPT !.phase = "mounted"])
  /\ op' = [name |-> "detailsMount"]
  /\ UNCHANGED <<hook, favorites, client, blocked, storage, now, written,
                 calls>>

\* the page passes another id, or the user picks another time range
propsChange(id, days) ==
  /\ details.phase = "mounted"
  /\ <<id, days>> # <<details.id, details.days>>
  /\ (details.fn = "useCryptoDetails") = (days = 0)
  /\ Len(details.fetches) < MaxDetailFetches
  /\ details' = effect([details EXCEPT !.id = id, !.days = days])
  /\ op' = [name |-> "propsChange"]
  /\ UNCHANGED <<hook, favorites, client, blocked, storage, now, written,
                 calls>>

\* use-crypto-details lines 41-47, use-global-data lines 263-270: the await
\* resumes with the response
detailsResolved(i) ==
  /\ i \in 1..Len(details.fetches)
  /\ details.fetches[i].outcome = "pending"
  /\ IF details.phase = "unmounted"
     THEN details' = [details EXCEPT !.fetches[i].outcome = "ignored"]
     ELSE details' =
            [details EXCEPT
               !.data = responseFor(details.fetches[i]),
               !.chartData = IF details.fn = "useCryptoChart"
                             THEN formatChartData(
                                    responseFor(details.fetches[i]))
                             ELSE @,
               !.loading = FALSE,
               !.fetches[i].outcome = "data"]
  /\ op' = [name |-> "detailsResolved", fetch |-> i]
  /\ UNCHANGED <<hook, favorites, client, blocked, storage, now, written,
                 calls>>

\* use-crypto-details lines 43-47, use-global-data lines 266-270: the await
\* resumes with the error
detailsRejected(i, err) ==
  /\ i \in 1..Len(details.fetches)
  /\ details.fetches[i].outcome = "pending"
  /\ IF details.phase = "unmounted"
     THEN details' = [details EXCEPT !.fetches[i].outcome = "ignored"]
     ELSE details' =
            [details EXCEPT
               !.error = errorMessage(err,
                           IF details.fn = "useCryptoDetails"
                           THEN "Error fetching details"
                           ELSE "Error fetching chart data"),
               !.loading = FALSE,
               !.fetches[i].outcome = "error"]
  /\ op' = [name |-> "detailsRejected", fetch |-> i]
  /\ UNCHANGED <<hook, favorites, client, blocked, storage, now, written,
                 calls>>

\* the component leaves the page; the effect has no cleanup
detailsUnmount ==
  /\ details.phase = "mounted"
  /\ details' = [details EXCEPT !.phase = "unmounted"]
  /\ op' = [name |-> "detailsUnmount"]
  /\ UNCHANGED <<hook, favorites, client, blocked, storage, now, written,
                 calls>>

NextDetails ==
  \/ detailsMount
  \/ \E id \in DetailIds, days \in {0} \cup ChartDays : propsChange(id, days)
  \/ \E i \in 1..MaxDetailFetches : detailsResolved(i)
  \/ \E i \in 1..MaxDetailFetches, err \in {RateLimitError, FetchTypeError} :
       detailsRejected(i, err)
  \/ detailsUnmount

SpecDetails == InitDetails /\ [][NextDetails]_vars

-----------------------------------------------------------------------------
(* Hook useFavorites.  The list is loaded from STORAGE_KEY in an animation  *)
(* frame after mount, and saved by an effect after every render in which    *)
(* the hydrated list is a new one.                                          *)

FavoriteIds == {"bitcoin", "ethereum"}

\* lists found under STORAGE_KEY at mount
StoredFavorites ==
  {<<>>, <<"bitcoin">>, <<"ethereum", "bitcoin">>, <<"bitcoin", "bitcoin">>}

\* Array.prototype.includes
Array_includes(list, id) == \E i \in 1..Len(list) : list[i] = id

\* prev.filter((fav) => fav !== id)
filterOut(list, id) == SelectSeq(list, LAMBDA fav : fav # id)

InitFavorites ==
  /\ client = TRUE
  /\ blocked \in BOOLEAN
  /\ storage \in {[sk \in StorageKeys |->
                     IF sk = STORAGE_KEY THEN item ELSE NoItem] :
                   item \in {NoItem, Garbage}
                            \cup {JSON_stringify(l) : l \in StoredFavorites}}
  /\ now = 0
  /\ written = [k \in Keys |-> NoPayload]
  /\ op = [name |-> "init"]
  /\ calls = [c \in Calls |-> IdleCall]
  /\ hook = NotRendered
  /\ details = NotRendered
  /\ favorites = [phase |-> "mounted", favorites |-> <<>>,
                  isHydrated |-> FALSE, loaded |-> <<>>]

\* lines 61-69: the save effect, run after a render with the list `list`
saveEffect(list, isHydrated, changed, setItemResult) ==
  IF isHydrated /\ changed /\ ~blocked /\ setItemResult = "ok"
  THEN [storage EXCEPT ![STORAGE_KEY] = JSON_stringify(list)]
  ELSE storage

\* lines 34-53: loadFavorites in its animation frame, and the save effect
\* that the hydrated render runs
loadFavorites(setItemResult) ==
  LET stored == storage[STORAGE_KEY]
      parsed == IF ~blocked /\ stored.kind = "json"
                THEN stored.value ELSE favorites.favorites IN
  /\ favorites.phase = "mounted"
  /\ ~favorites.isHydrated
  /\ favorites' = [favorites EXCEPT !.favorites = parsed,
                                     !.isHydrated = TRUE,
                                     !.loaded = parsed]
  /\ storage' = saveEffect(parsed, TRUE, TRUE, setItemResult)
  /\ op' = [name |-> "loadFavorites"]
  /\ UNCHANGED <<hook, details, client, blocked, now, written, calls>>

\* the state update of a list operation and the save effect after it
setFavorites(name, id, list, setItemResult) ==
  /\ favorites.phase = "mounted"
  /\ favorites' = [favorites EXCEPT !.favorites = list]
  /\ storage' = saveEffect(list, favorites.isHydrated,
                           list # favorites.favorites, setItemResult)
  /\ op' = [name |-> name, id |-> id]
  /\ UNCHANGED <<hook, details, client, blocked, now, written, calls>>

\* addFavorite without the includes test
addFavorite_appendsAlways(id, setItemResult) ==
  setFavorites("addFavorite", id, Append(favorites.favorites, id),
               setItemResult)

\* lines 75-80
addFavorite(id, setItemResult) ==
  setFavorites("addFavorite", id,
               IF Array_includes(favorites.favorites, id)
               THEN favorites.favorites
               ELSE Append(favorites.favorites, id),
               setItemResult)

\* lines 86-88
removeFavorite(id, setItemResult) ==
  setFavorites("removeFavorite", id, filterOut(favorites.favorites, id),
               setItemResult)

\* lines 94-101
toggleFavorite(id, setItemResult) ==
  setFavorites("toggleFavorite", id,
               IF Array_includes(favorites.favorites, id)
               THEN filterOut(favorites.favorites, id)
               ELSE Append(favorites.favorites, id),
               setItemResult)

\* lines 116-118
clearFavorites(setItemResult) ==
  setFavorites("clearFavorites", NULL, <<>>, setItemResult)

\* lines 108-111
isFavorite(id) ==
  /\ favorites.phase = "mounted"
  /\ op' = [name |-> "isFavorite", id |-> id,
            result |-> Array_includes(favorites.favorites, id)]
  /\ UNCHANGED <<react, client, blocked, storage, now, written, calls>>

NextFavorites ==
  \E setItemResult \in {"ok", "quota"} :
    \/ loadFavorites(setItemResult)
    \/ \E id \in FavoriteIds :
         \/ addFavorite(id, setItemResult)
         \/ removeFavorite(id, setItemResult)
         \/ toggleFavorite(id, setItemResult)
         \/ isFavorite(id)
    \/ clearFavorites(setItemResult)

SpecFavorites == InitFavorites /\ [][NextFavorites]_vars

-----------------------------------------------------------------------------
(* Vocabulary of the properties *)

\* the store holds a parseable entry for key
holdsEntry(key) ==
  /\ usable
  /\ storage[getCacheKey(key)] # NoItem
  /\ ~JSON_parse_throws(storage[getCacheKey(key)])

storedEntry(key) == JSON_parse(storage[getCacheKey(key)])

\* the store holds an entry for key with payload data
holds(key, data) == holdsEntry(key) /\ storedEntry(key).data = data

\* op is the outcome of a fetchWithCache call that has settled
settled == op.name \in {"returned", "threw"}

\* the network request of the settled call failed
FailedResponses == {"429", "500", "failed", "200 unparseable"}

requestFailed == settled /\ op.response \in FailedResponses

-----------------------------------------------------------------------------
(* Properties of the fetch client, checked under SpecFetch *)

\* C1: a call with forceRefresh = false that finds an unexpired entry P1 for
\* its key returns P1 and issues no network request
C1_HitReturnsCachedWithoutRequest ==
  /\ op.name = "requested" =>
       ~(~calls[op.call].forceRefresh /\ calls[op.call].atCall = "valid")
  /\ settled /\ ~op.forceRefresh /\ op.atCall = "valid" =>
       /\ op.name = "returned"
       /\ op.requests = 0
       /\ op.response = "none"
       /\ holds(op.key, op.value)

\* C1 restricted to the payloads that JavaScript takes as true (objects,
\* arrays): the hit is served from the store without a request
C1_TruthyHitReturnsCachedWithoutRequest ==
  /\ op.name = "requested" =>
       ~(/\ ~calls[op.call].forceRefresh
         /\ calls[op.call].atCall = "valid"
         /\ Truthy(storedEntry(calls[op.call].key).data))
  /\ settled /\ ~op.forceRefresh /\ op.atCall = "valid"
       /\ op.response = "none" =>
       /\ op.name = "returned"
       /\ op.requests = 0
       /\ holds(op.key, op.value)

\* C2: when the request fails and the store holds an entry P1 for the key,
\* however old, the call returns P1 and no error reaches the caller
C2_FailureServesStoredEntry ==
  requestFailed /\ holdsEntry(op.key) =>
    /\ op.name = "returned"
    /\ op.value = storedEntry(op.key).data

\* C2 restricted to the payloads that JavaScript takes as true
C2_FailureServesTruthyStoredEntry ==
  requestFailed /\ holdsEntry(op.key)
    /\ Truthy(storedEntry(op.key).data) =>
    /\ op.name = "returned"
    /\ op.value = storedEntry(op.key).data

\* C3: a failure reaches the caller exactly when no entry is stored for the
\* key, and then as the error of its class: API Error for a non-2xx, non-429
\* status, the rejection of fetch for a request that did not complete
C3_FailurePropagatesIffNoEntry ==
  requestFailed =>
    /\ op.name = "threw" <=> ~holdsEntry(op.key)
    /\ op.name = "threw" /\ op.response = "500" =>
         /\ startsWith(op.error.message, "API Error: 500")
         /\ op.error # FetchTypeError
    /\ op.name = "threw" /\ op.response = "failed" =>
         /\ op.error = FetchTypeError
         /\ ~startsWith(op.error.message, "API Error")

\* C4: a 429 is classified as the rate-limit error, not as an API Error, and
\* then handled as any failure: the stored entry if there is one, else the
\* rate-limit error is thrown
C4_RateLimitedThenFallback ==
  settled /\ op.response = "429" =>
    IF holdsEntry(op.key)
    THEN op.name = "returned" /\ op.value = storedEntry(op.key).data
    ELSE /\ op.name = "threw"
         /\ op.error = RateLimitError
         /\ op.error # ApiError(429)

\* C5: the key had no entry when the call started and the request returns
\* 200 with payload P: one request, P is returned, the store holds P
\* (stated for a browser whose storage is usable)
C5_MissFetchesStoresReturns ==
  usable /\ settled /\ op.atCall = "none" /\ op.response = "200" =>
    /\ op.name = "returned"
    /\ op.requests = 1
    /\ op.value = op.body
    /\ holds(op.key, op.body)

\* C5 as amended: the store holds P when the storage write succeeded
C5_MissFetchesReturnsStoresIfWritten ==
  /\ op.name = "requested" /\ calls[op.call].atCall = "none" =>
       calls[op.call].requests = 1
  /\ settled /\ op.atCall = "none" =>
       op.requests = 1
  /\ settled /\ op.atCall = "none" /\ op.response = "200" =>
       /\ op.name = "returned"
       /\ op.value = op.body
       /\ op.cacheWrite = "ok" => holds(op.key, op.body)

C5_Witness ==
  /\ op.name = "returned"
  /\ op.atCall = "none"
  /\ op.response = "200"
  /\ op.requests = 1
  /\ op.cacheWrite = "ok"
  /\ op.value = "{P1}"
  /\ holds(op.key, "{P1}")

\* C6: forceRefresh = true with an unexpired entry P1: the cache is not
\* consulted, one request is made, and when it returns P2 the store is
\* updated to P2 and P2 is returned (stated for a browser whose storage is
\* usable)
C6_ForceRefreshFetchesAndReplaces ==
  /\ settled /\ op.forceRefresh =>
       op.requests = 1 /\ op.response # "none"
  /\ usable /\ settled /\ op.forceRefresh /\ op.atCall = "valid"
       /\ op.response = "200" =>
       /\ op.name = "returned"
       /\ op.value = op.body
       /\ holds(op.key, op.body)

\* C6 as amended: the store is updated when the storage write succeeded
C6_ForceRefreshFetchesReplacesIfWritten ==
  /\ settled /\ op.forceRefresh =>
       op.requests = 1 /\ op.response # "none"
  /\ settled /\ op.forceRefresh /\ op.atCall = "valid"
       /\ op.response = "200" =>
       /\ op.name = "returned"
       /\ op.value = op.body
       /\ op.cacheWrite = "ok" => holds(op.key, op.body)

C6_Witness ==
  /\ op.name = "returned"
  /\ op.forceRefresh
  /\ op.atCall = "valid"
  /\ op.response = "200"
  /\ op.requests = 1
  /\ op.cacheWrite = "ok"
  /\ op.value = "{P2}"
  /\ holds(op.key, "{P2}")
  /\ written[op.key] = "{P2}"

-----------------------------------------------------------------------------
(* Properties of the store, checked under Spec *)

\* C7: immediately after set(k, d, t), get(k) returns d and isValid(k) is true
\* (stated for a usable storage and for a ttl > 0, as the data model has it)
C7_SetThenGet ==
  usable /\ op.name = "set" /\ op.ttl > 0 =>
    /\ getCachedData(op.key) = op.data
    /\ isCacheValid(op.key)

\* C7 as amended: for t > 0 and a set whose storage write succeeded
C7_SuccessfulSetThenGet ==
  op.name = "set" /\ op.setItemResult = "ok" /\ op.ttl > 0 =>
    /\ getCachedData(op.key) = op.data
    /\ isCacheValid(op.key)

C7_Witness ==
  /\ op.name = "set"
  /\ op.setItemResult = "ok"
  /\ op.ttl = DEFAULT_TTL
  /\ op.data = "{P1}"
  /\ now > 0
  /\ getCachedData(op.key) = "{P1}"
  /\ isCacheValid(op.key)

\* C8: once the clock is past expiresAt of the entry of k, get(k) is absent
\* and getStale(k) is the payload last written, as long as the entry has not
\* been removed or overwritten
C8_ExpiredAbsentButStale ==
  \A k \in Keys :
    /\ written[k] # NoPayload
    /\ holdsEntry(k)
    /\ now > storedEntry(k).expiresAt
    => /\ getCachedData(k) = NULL
       /\ getExpiredCacheData(k) = written[k]

C8_Witness ==
  \E k \in Keys :
    /\ written[k] = "{P1}"
    /\ holdsEntry(k)
    /\ storedEntry(k).expiresAt = storedEntry(k).timestamp + DEFAULT_TTL
    /\ now > storedEntry(k).expiresAt
    /\ op.name = "tick"
    /\ getCachedData(k) = NULL
    /\ getExpiredCacheData(k) = "{P1}"

\* C9: after invalidate(k), get(k) and getStale(k) are absent (the item of k
\* is gone from a usable storage); invalidate of an absent key changes
\* nothing (so a second call changes nothing), and no item other than that
\* of k is touched
C9_InvalidateRemovesOnlyKey ==
  /\ [](op.name = "invalidate" =>
          /\ getCachedData(op.key) = NULL
          /\ getExpiredCacheData(op.key) = NULL
          /\ usable => storage[getCacheKey(op.key)] = NoItem)
  /\ [][op'.name = "invalidate" =>
          /\ \A sk \in StorageKeys :
               sk # getCacheKey(op'.key) => storage'[sk] = storage[sk]
          /\ storage[getCacheKey(op'.key)] = NoItem => storage' = storage
       ]_vars

C9_Witness ==
  \E other \in Keys :
    /\ op.name = "invalidate"
    /\ op.removed
    /\ other # op.key
    /\ holdsEntry(other)
    /\ storage[STORAGE_KEY] # NoItem
    /\ getExpiredCacheData(op.key) = NULL

\* C10: clearAll removes every item whose key starts with the cache prefix
\* (from a usable storage) and leaves every other item, the favourites under
\* "crypto-favorites" among them, as it was
C10_ClearAllOnlyNamespace ==
  [][op'.name = "clearAll" =>
       \A sk \in StorageKeys :
         IF usable /\ startsWith(sk, CACHE_PREFIX)
         THEN storage'[sk] = NoItem
         ELSE storage'[sk] = storage[sk]
    ]_vars

C10_Witness ==
  /\ op.name = "clearAll"
  /\ op.removed = Cardinality(Keys)
  /\ storage["crypto-favorites"] = JSON_stringify(<<"bitcoin">>)
  /\ \A k \in Keys : storage[getCacheKey(k)] = NoItem

\* the item under storage key sk is a namespaced entry with expiresAt <= now
expiredNamespaced(sk) ==
  /\ startsWith(sk, CACHE_PREFIX)
  /\ storage[sk] # NoItem
  /\ ~JSON_parse_throws(storage[sk])
  /\ JSON_parse(storage[sk]).expiresAt <= now

\* C11: sweepExpired removes exactly the namespaced entries with
\* expiresAt <= now: each of them is gone afterwards and every other item,
\* namespaced or not, is unchanged
C11_SweepRemovesExactlyExpired ==
  [][usable /\ op'.name = "sweepExpired" =>
       \A sk \in StorageKeys :
         storage'[sk] = IF expiredNamespaced(sk) THEN NoItem ELSE storage[sk]]_vars

\* C11 as amended: exactly the expired namespaced entries are removed when
\* every namespaced item parses, and nothing is removed when one does not
C11_SweepOfParseableItems ==
  [][usable /\ op'.name = "sweepExpired" =>
       IF \E pk \in PrefixedKeys : JSON_parse_throws(storage[pk])
       THEN storage' = storage
       ELSE \A sk \in StorageKeys :
              storage'[sk] =
                IF expiredNamespaced(sk) THEN NoItem ELSE storage[sk]]_vars

\* a sweep removed an expired entry and left an unexpired entry and the
\* favourites in place
C11_Witness ==
  /\ op.name = "sweepExpired"
  /\ op.removed = 1
  /\ storage[STORAGE_KEY] # NoItem
  /\ \E k \in Keys : holdsEntry(k) /\ now < storedEntry(k).expiresAt

\* C12: get, getStale and isValid never throw: on a missing key and on an
\* item that fails to parse all three answer absent / false, and so do get
\* and isValid on an expired entry
C12_ReadsNeverThrow ==
  /\ \A k \in Keys :
       /\ getCachedData(k) # Thrown
       /\ getExpiredCacheData(k) # Thrown
       /\ isCacheValid(k) \in BOOLEAN
       /\ entryState(k) \in {"none", "garbage", "expired"} =>
            getCachedData(k) = NULL /\ ~isCacheValid(k)
       /\ entryState(k) \in {"none", "garbage"} =>
            getExpiredCacheData(k) = NULL
  /\ op.name \in {"get", "getStale"} => op.value # Thrown
  /\ op.name = "isValid" => op.valid \in BOOLEAN

\* get was called on a key whose item does not parse and answered absent
C12_Witness ==
  /\ op.name = "get"
  /\ entryState(op.key) = "garbage"
  /\ op.value = NULL
  /\ getExpiredCacheData(op.key) = NULL
  /\ ~isCacheValid(op.key)

-----------------------------------------------------------------------------
(* Properties of the fetch client and the store together, under SpecFetch *)

\* C13: when the storage write of a fetched response fails because storage
\* is full, set runs the sweep of the expired entries and nothing else (the
\* write is not tried again), and the caller still receives the fetched data
C13_QuotaFailureSweepsAndReturns ==
  /\ [](settled /\ op.response = "200" =>
          op.name = "returned" /\ op.value = op.body)
  /\ [][op'.name = "returned" /\ op'.cacheWrite = "quota" =>
          /\ op'.response = "200"
          /\ op'.value = op'.body
          /\ IF \E pk \in PrefixedKeys : JSON_parse_throws(storage[pk])
             THEN storage' = storage
             ELSE \A sk \in StorageKeys :
                    storage'[sk] =
                      IF expiredNamespaced(sk) THEN NoItem ELSE storage[sk]]_vars

\* a fetched response was returned although its write failed on quota; the
\* expired entry of the key is gone and the response is not stored
C13_Witness ==
  /\ op.name = "returned"
  /\ op.cacheWrite = "quota"
  /\ op.atCall = "expired"
  /\ op.value = "{P1}"
  /\ storage[getCacheKey(op.key)] = NoItem

-----------------------------------------------------------------------------
(* Further properties of the store, checked under Spec *)

\* C15: a successful set(k, d2, t2) replaces whatever k held: afterwards the
\* item of k is the one entry [k, d2, timestamp = now, expiresAt = now + t2],
\* with nothing of the prior entry in it, and the items of all other keys
\* are unchanged
C15_SetReplacesEntry ==
  /\ [](op.name = "set" /\ op.setItemResult = "ok" =>
          getExpiredCacheData(op.key) = op.data)
  /\ [][op'.name = "set" /\ op'.setItemResult = "ok" =>
          /\ storage'[getCacheKey(op'.key)] =
               JSON_stringify([key |-> op'.key, data |-> op'.data,
                               timestamp |-> now,
                               expiresAt |-> now + op'.ttl])
          /\ \A sk \in StorageKeys \ {getCacheKey(op'.key)} :
               storage'[sk] = storage[sk]]_vars

\* a set replaced an older entry of the key, written with other data at an
\* earlier time, while the other key kept its entry
C15_Witness ==
  /\ op.name = "set"
  /\ op.setItemResult = "ok"
  /\ op.replaced
  /\ op.data = "{P2}"
  /\ now > 0
  /\ storedEntry(op.key) = [key |-> op.key, data |-> "{P2}",
                            timestamp |-> now, expiresAt |-> now + op.ttl]
  /\ \E k \in Keys \ {op.key} :
        holdsEntry(k) /\ storedEntry(k).timestamp < now

\* C16: an entry is never deleted merely because it expired: get, getStale,
\* isValid, stats and the passing of time leave storage unchanged, the item
\* of an expired entry changes only when the key is invalidated or
\* overwritten, the cache is cleared or a sweep runs (called directly or as
\* the quota recovery of set), and until then getStale returns its data
C16_ExpiredEntryStaysUntilRemoved ==
  /\ [](\A k \in Keys :
          holdsEntry(k) => getExpiredCacheData(k) = storedEntry(k).data)
  /\ [][op'.name \in {"get", "getStale", "isValid", "stats", "tick"} =>
          storage' = storage]_vars
  /\ [][\A k \in Keys :
          (/\ holdsEntry(k)
           /\ storedEntry(k).expiresAt <= now
           /\ storage'[getCacheKey(k)] # storage[getCacheKey(k)]) =>
            \/ op'.name = "invalidate" /\ op'.key = k
            \/ op'.name = "clearAll"
            \/ op'.name = "sweepExpired"
            \/ op'.name = "set" /\ op'.key = k /\ op'.setItemResult = "ok"
            \/ op'.name = "set" /\ op'.setItemResult = "quota"
            \/ op'.name = "corruptEntry"]_vars

\* get answered absent for an entry that expired a tick or more ago; the
\* entry is still stored and getStale returns its data
C16_Witness ==
  /\ op.name = "get"
  /\ op.value = NULL
  /\ holdsEntry(op.key)
  /\ storedEntry(op.key).data = "{P1}"
  /\ storedEntry(op.key).expiresAt + TickMs <= now
  /\ getExpiredCacheData(op.key) = "{P1}"

-----------------------------------------------------------------------------
(* Properties of the cache keys, checked under SpecKeys *)

\* the two calls have computed their keys
bothComputed == \A c \in Calls : calls[c].pc = "key"

\* String.prototype.includes
includes(t, part) ==
  \E i \in 1..Len(t) :
    i + Len(part) - 1 <= Len(t) /\ SubSeq(t, i, i + Len(part) - 1) = part

\* the days and the currency of the request, if it has them, hold no "-"
hyphenFreeTail(request) ==
  /\ request.fn \in {"getCryptoList", "getCryptoMarketChart"} =>
       ~includes(request.currency, "-")
  /\ request.fn = "getCryptoMarketChart" =>
       ~includes(templateLiteral(request.days), "-")

-----------------------------------------------------------------------------
(* Properties of the store without a usable storage, under SpecFetch *)

NetworkErrors ==
  {RateLimitError, ApiError(500), FetchTypeError, JsonSyntaxError}

\* C18: with no storage (no window) or a storage whose every call throws, no
\* store operation raises: get and getStale answer absent, isValid false,
\* set, invalidate, clearAll and sweepExpired change nothing, stats reports
\* zero entries; fetchWithCache always goes to the network, returns the
\* fetched data on success and on failure throws the network error
C18_NoStorageDegradesToNoCache ==
  ~usable =>
    /\ \A k \in Keys :
         /\ getCachedData(k) = NULL
         /\ getExpiredCacheData(k) = NULL
         /\ isCacheValid(k) = FALSE
         /\ invalidateCache_storage(k) = storage
         /\ \A d \in Payloads, t \in TTLs, r \in {"ok", "quota"} :
              setCachedData_storage(k, d, t, r) = storage
    /\ clearAllCache_storage = storage
    /\ clearExpiredCache_storage = storage
    /\ getCacheStats = ZeroStats
    /\ getCacheStats.totalEntries = 0
    /\ settled =>
         /\ op.requests = 1
         /\ op.response = "200" => op.name = "returned" /\ op.value = op.body
         /\ op.response \in FailedResponses =>
              op.name = "threw" /\ op.error \in NetworkErrors
         /\ op.response = "429" => op.error = RateLimitError
         /\ op.response = "500" => op.error = ApiError(500)
         /\ op.response = "failed" => op.error = FetchTypeError
         /\ op.response = "200 unparseable" => op.error = JsonSyntaxError

\* the browser blocks the storage, which still holds an entry of the key: a
\* non-forced call got the rate-limit error of its request
C18_Witness ==
  /\ client
  /\ blocked
  /\ storage[getCacheKey("global-data")] = JSON_stringify(EarlierEntry)
  /\ op.name = "threw"
  /\ op.key = "global-data"
  /\ ~op.forceRefresh
  /\ op.error = RateLimitError

\* there is no window: the fetched data is returned and nothing is stored
C18_WitnessNoWindow ==
  /\ ~client
  /\ op.name = "returned"
  /\ op.response = "200"
  /\ op.value = "{P1}"
  /\ op.cacheWrite = "skipped"

\* C20: one call of fetchWithCache issues at most one network request,
\* whatever its outcome: none when it is served from the store, otherwise
\* one; a failed request is followed by the stale lookup alone, which changes
\* nothing and ends the call with the stale data or with the request's error
C20_AtMostOneRequest ==
  /\ [](\A c \in SequentialCalls : inFlight(c) => calls[c].requests = 1)
  /\ [](settled =>
          /\ op.requests \in {0, 1}
          /\ op.requests = 0 <=> op.response = "none")
  /\ [][op'.name \in {"returned", "threw"}
          /\ op'.response \in FailedResponses =>
          /\ op'.requests = 1
          /\ storage' = storage
          /\ calls'[op'.call] = IdleCall
          /\ IF Truthy(getExpiredCacheData(op'.key))
             THEN /\ op'.name = "returned"
                  /\ op'.value = getExpiredCacheData(op'.key)
             ELSE op'.name = "threw"]_vars

\* a call whose one request failed and that had no entry to fall back on
\* ended with the error
C20_Witness ==
  /\ op.name = "threw"
  /\ op.response = "500"
  /\ op.requests = 1
  /\ op.error = ApiError(500)
  /\ calls[op.call] = IdleCall

-----------------------------------------------------------------------------
(* Properties of overlapping calls, checked under SpecOverlap *)

\* C19: there is no single-flight: a call that starts while another call for
\* the same key is in flight is served from the store only by an unexpired
\* entry; without one it misses as the first call did, and each of the two
\* calls has its own network request outstanding
C19_OverlappingCallsBothRequest ==
  \A c1 \in Calls :
    \A c2 \in Calls \ {c1} :
      inFlight(c1) /\ op.name \in {"requested", "returned"}
        /\ op.call = c2 =>
        /\ (op.name = "returned" /\ op.response = "none"
              /\ op.key = calls[c1].key) =>
             op.atCall = "valid" /\ ~op.forceRefresh
        /\ (op.name = "requested" /\ calls[c2].key = calls[c1].key) =>
             /\ inFlight(c2)
             /\ calls[c1].requests = 1
             /\ calls[c2].requests = 1

\* the second call started while the first waited for its response; the key
\* had no entry for either and both have a request outstanding
C19_Witness ==
  /\ op.name = "requested"
  /\ op.call = "b"
  /\ \A c \in Calls :
       /\ calls[c].pc = "fetch"
       /\ calls[c].key = "global-data"
       /\ ~calls[c].forceRefresh
       /\ calls[c].atCall = "none"
       /\ calls[c].requests = 1

-----------------------------------------------------------------------------
(* Properties of the default TTL, checked under SpecFetch *)

\* op is what the start of a fetchWithCache call did: it returned from the
\* store, or it issued the request
callStarted ==
  \/ op.name = "requested"
  \/ op.name = "returned" /\ op.response = "none"

startedKey == IF op.name = "requested" THEN calls[op.call].key ELSE op.key

startedForceRefresh ==
  IF op.name = "requested" THEN calls[op.call].forceRefresh
  ELSE op.forceRefresh

\* C21: a response is written with the default TTL of 600000 ms: while less
\* than 600000 ms have passed since the write a non-forced call for the key
\* is served from the store without a request, and from 600000 ms on it
\* issues a request
C21_ServedForTenMinutes ==
  callStarted /\ ~startedForceRefresh /\ holdsEntry(startedKey) =>
    LET entry == storedEntry(startedKey) IN
    /\ entry.expiresAt = entry.timestamp + 600000
    /\ IF now < entry.timestamp + 600000
       THEN /\ op.name = "returned"
            /\ op.requests = 0
            /\ op.value = entry.data
       ELSE op.name = "requested" /\ calls[op.call].requests = 1

\* C21 holds of the payloads that JavaScript takes as true
C21_TruthyServedForTenMinutes ==
  (/\ callStarted
   /\ ~startedForceRefresh
   /\ holdsEntry(startedKey)
   /\ Truthy(storedEntry(startedKey).data)) =>
    LET entry == storedEntry(startedKey) IN
    /\ entry.expiresAt = entry.timestamp + 600000
    /\ IF now < entry.timestamp + 600000
       THEN /\ op.name = "returned"
            /\ op.requests = 0
            /\ op.value = entry.data
       ELSE op.name = "requested" /\ calls[op.call].requests = 1

\* a non-forced call exactly 600000 ms after the write of a truthy payload
\* issued a request
C21_WitnessAtBoundary ==
  /\ op.name = "requested"
  /\ ~calls[op.call].forceRefresh
  /\ holds(calls[op.call].key, "{P1}")
  /\ now = storedEntry(calls[op.call].key).timestamp + 600000

-----------------------------------------------------------------------------
(* Properties of isValid and stats, checked under Spec *)

\* C22: isValid(k) is true if and only if the storage holds a parseable
\* entry for k whose expiresAt is strictly greater than the current time
C22_ValidIffUnexpiredEntry ==
  /\ \A k \in Keys :
       isCacheValid(k) <=>
         /\ usable
         /\ storage[getCacheKey(k)] # NoItem
         /\ storage[getCacheKey(k)].kind = "json"
         /\ storage[getCacheKey(k)].value.expiresAt > now
  /\ op.name = "isValid" =>
       (op.valid <=>
          holdsEntry(op.key) /\ storedEntry(op.key).expiresAt > now)

\* isValid answered false for an entry at the very millisecond it expires
C22_Witness ==
  /\ op.name = "isValid"
  /\ ~op.valid
  /\ holdsEntry(op.key)
  /\ storedEntry(op.key).expiresAt = now
  /\ storedEntry(op.key).timestamp < now

\* isValid answered true for an entry with time left
C22_WitnessValid ==
  /\ op.name = "isValid"
  /\ op.valid
  /\ holdsEntry(op.key)
  /\ storedEntry(op.key).expiresAt = now + TickMs

\* the namespaced items of the storage, and those of them that are entries
\* with time left
namespacedItems ==
  {sk \in StorageKeys : startsWith(sk, CACHE_PREFIX) /\ storage[sk] # NoItem}

unexpiredNamespaced ==
  {sk \in namespacedItems :
     storage[sk].kind = "json" /\ now < storage[sk].value.expiresAt}

C24_ForceRefreshOnlyOnUserRefresh ==
  /\ [](\A i \in 1..Len(hook.fetches) :
          /\ hook.fetches[i].forceRefresh = (hook.fetches[i].trigger = "user")
          /\ (hook.fetches[i].trigger = "mount") = (i = 1))
  /\ [][(op'.name = "fetchResolved" /\ hook.phase = "mounted") =>
          /\ hook'.loading = FALSE
          /\ \/ /\ hook'.fetches[op'.fetch].outcome = "data"
                /\ hook'.data =
                     IF hook.fn = "useCryptos" THEN op'.response
                     ELSE IF hook.fn = "useGlobalData"
                     THEN op'.response \o ".data"
                     ELSE op'.response \o ".coins"
                /\ hook'.error = hook.error
             \/ /\ hook'.fetches[op'.fetch].outcome = "error"
                /\ hook.fn # "useCryptos" /\ op'.response = NULL
                /\ hook'.error = IF hook.fn = "useGlobalData"
                                 THEN NullDataTypeError.message
                                 ELSE NullCoinsTypeError.message
                /\ hook'.data = hook.data]_vars
  /\ [][(op'.name = "fetchRejected" /\ hook.phase = "mounted") =>
          /\ hook'.loading = FALSE
          /\ hook'.fetches[op'.fetch].outcome = "error"
          /\ hook'.error = op'.message
          /\ hook'.data = hook.data]_vars

\* the hook fetched at mount, on the interval and on a user refresh; one call
\* left its data and the last one its error's message
C24_Witness ==
  /\ Len(hook.fetches) = 3
  /\ hook.fetches[1].trigger = "mount" /\ hook.fetches[1].outcome = "data"
  /\ hook.fetches[2].trigger = "interval" /\ ~hook.fetches[2].forceRefresh
  /\ hook.fetches[3].trigger = "user" /\ hook.fetches[3].forceRefresh
  /\ op.name = "fetchRejected" /\ op.fetch = 3
  /\ hook.data = "{P1}"
  /\ hook.error = RATE_LIMIT_MESSAGE
  /\ hook.loading = FALSE

\* the times at which the interval of the mounted hook has come due
dueTimes ==
  IF hook.phase = "rendered" \/ hook.refreshInterval = 0 THEN {}
  ELSE {t \in {hook.mountedAt + k * hook.refreshInterval :
                  k \in 1..MaxHookTicks} : t <= hook.clock}

\* the calls that the interval made
intervalFetches ==
  {i \in 1..Len(hook.fetches) : hook.fetches[i].trigger = "interval"}

\* C26: the hook issues one non-forced fetch at mount and, when
\* refreshInterval > 0, one more every refreshInterval until the unmount; with
\* refreshInterval = 0 only the mount fetch occurs, and after the unmount the
\* timer issues no fetch
C26_MountFetchThenInterval ==
  /\ [](hook.phase # "rendered" =>
          /\ Len(hook.fetches) >= 1
          /\ hook.fetches[1].trigger = "mount"
          /\ hook.fetches[1].forceRefresh = FALSE
          /\ hook.fetches[1].at = hook.mountedAt)
  /\ [](\A i \in intervalFetches :
          /\ hook.fetches[i].forceRefresh = FALSE
          /\ hook.fetches[i].at \in dueTimes
          /\ \A j \in intervalFetches :
               hook.fetches[j].at = hook.fetches[i].at => j = i)
  /\ [](hook.phase = "mounted" =>
          \A t \in dueTimes :
            t < hook.clock =>
              \E i \in intervalFetches : hook.fetches[i].at = t)
  /\ [](hook.phase # "rendered" /\ hook.refreshInterval = 0 =>
          intervalFetches = {})
  /\ [][hook.phase = "unmounted" =>
          Len(hook'.fetches) = Len(hook.fetches)]_vars

\* the default interval fetched at mount, one and two intervals later, and
\* nothing after the unmount
C26_Witness ==
  /\ hook.phase = "unmounted"
  /\ hook.refreshInterval = 60000
  /\ hook.mountedAt = 0
  /\ hook.clock = 4 * HookTickMs
  /\ Len(hook.fetches) = 3
  /\ hook.fetches[2].trigger = "interval" /\ hook.fetches[2].at = 60000
  /\ hook.fetches[3].trigger = "interval" /\ hook.fetches[3].at = 120000

\* with the interval disabled the mount fetch is the only one after two
\* default intervals
C26_WitnessDisabled ==
  /\ hook.phase = "mounted"
  /\ hook.refreshInterval = 0
  /\ hook.clock - hook.mountedAt = 4 * HookTickMs
  /\ Len(hook.fetches) = 1

\* the call of the details hook that settled in this step was for another id
\* or time range than the hook is given now, or the hook is unmounted
settledLate ==
  /\ op'.name \in {"detailsResolved", "detailsRejected"}
  /\ \/ details.phase = "unmounted"
     \/ details.fetches[op'.fetch].id # details.id
     \/ details.fetches[op'.fetch].days # details.days

\* C25: the result of a call that was in flight when the hook was unmounted
\* or its id or options changed is discarded: it changes neither the data nor
\* the error nor the loading state shown for the current id
C25_LateResultDiscarded ==
  [][settledLate =>
       /\ details'.data = details.data
       /\ details'.chartData = details.chartData
       /\ details'.error = details.error
       /\ details'.loading = details.loading]_vars

\* what the code does hold to: a result that arrives after the unmount
\* changes nothing that is shown
C25_ResultAfterUnmountDiscarded ==
  [][(settledLate /\ details.phase = "unmounted") =>
       /\ details'.data = details.data
       /\ details'.chartData = details.chartData
       /\ details'.error = details.error
       /\ details'.loading = details.loading]_vars

\* the chart shows the prices of one day for the range of seven days
C25_StaleResultShown ==
  /\ details.phase = "mounted"
  /\ details.fn = "useCryptoChart"
  /\ details.id = "bitcoin" /\ details.days = 7
  /\ details.data = [id |-> "bitcoin", days |-> 1]
  /\ details.loading = FALSE
  /\ op.name = "detailsResolved" /\ op.fetch = 1

\* the ids of a list
members(list) == {list[i] : i \in 1..Len(list)}

duplicateFree(list) ==
  \A i, j \in 1..Len(list) : list[i] = list[j] => i = j

\* C27: starting from a duplicate-free list the favourites behave as a set:
\* the list never holds an id twice, addFavorite of a present id changes
\* nothing, removeFavorite leaves the id absent, toggleFavorite flips the
\* membership of exactly that id, and isFavorite(id) is true exactly when the
\* id is in the list
C27_FavoritesBehaveAsSet ==
  /\ [](duplicateFree(favorites.loaded) => duplicateFree(favorites.favorites))
  /\ [](op.name = "isFavorite" =>
          op.result = (op.id \in members(favorites.favorites)))
  /\ [][op'.name = "addFavorite" =>
          /\ Array_includes(favorites.favorites, op'.id) =>
               favorites'.favorites = favorites.favorites
          /\ members(favorites'.favorites) =
               members(favorites.favorites) \cup {op'.id}]_vars
  /\ [][op'.name = "removeFavorite" =>
          members(favorites'.favorites) =
            members(favorites.favorites) \ {op'.id}]_vars
  /\ [][op'.name = "toggleFavorite" =>
          /\ (op'.id \in members(favorites'.favorites)) =
               (op'.id \notin members(favorites.favorites))
          /\ members(favorites'.favorites) \ {op'.id} =
               members(favorites.favorites) \ {op'.id}]_vars
  /\ [][op'.name = "clearFavorites" => favorites'.favorites = <<>>]_vars

\* addFavorite of an id of the loaded two-id list left the list as it was
C27_Witness ==
  /\ favorites.loaded = <<"ethereum", "bitcoin">>
  /\ favorites.favorites = <<"ethereum", "bitcoin">>
  /\ op.name = "addFavorite" /\ op.id = "bitcoin"

\* toggleFavorite put back an id that removeFavorite had taken out
C27_WitnessToggle ==
  /\ favorites.loaded = <<"ethereum", "bitcoin">>
  /\ favorites.favorites = <<"bitcoin", "ethereum">>
  /\ op.name = "toggleFavorite" /\ op.id = "ethereum"

\* C28: a fetchWithCache call whose request fails never writes to the store:
\* neither the step that issues the request nor the step in which the call
\* returns stale data or throws changes any item
C28_FailedCallWritesNothing ==
  [][(\/ op'.name \in {"requested", "responded"}
      \/ /\ op'.name \in {"returned", "threw"}
         /\ op'.response \in FailedResponses) =>
       /\ storage' = storage
       /\ written' = written]_vars

\* a failed call threw while the store held an unreadable item for its key
\* and an entry for the other key
C28_Witness ==
  /\ op.name = "threw"
  /\ op.response = "500"
  /\ op.key = "global-data"
  /\ storage[getCacheKey("global-data")] = Garbage
  /\ holdsEntry("trending-coins")

\* a failed call returned the stale entry, which is still in the store
C28_WitnessStale ==
  /\ op.name = "returned"
  /\ op.response = "failed"
  /\ entryState(op.key) = "expired"
  /\ holds(op.key, op.value)

\* C29: a call with forceRefresh = true that finds an unexpired entry P1 for
\* its key and whose request fails returns P1 and throws nothing
C29_ForcedFailureServesUnexpiredEntry ==
  requestFailed /\ op.forceRefresh /\ op.atCall = "valid"
    /\ entryState(op.key) = "valid" =>
    /\ op.name = "returned"
    /\ op.value = storedEntry(op.key).data

\* C29 restricted to the payloads that JavaScript takes as true
C29_ForcedFailureServesTruthyUnexpiredEntry ==
  requestFailed /\ op.forceRefresh /\ op.atCall = "valid"
    /\ entryState(op.key) = "valid"
    /\ Truthy(storedEntry(op.key).data) =>
    /\ op.name = "returned"
    /\ op.value = storedEntry(op.key).data

\* a forced call got the unexpired entry back after its request failed
C29_Witness ==
  /\ op.name = "returned"
  /\ op.forceRefresh
  /\ op.atCall = "valid"
  /\ op.response = "500"
  /\ entryState(op.key) = "valid"
  /\ op.value = "{P1}"

\* C30: a 2xx response whose body cannot be parsed is handled as a failed
\* fetch: nothing is written, the stored entry of the key is returned if
\* there is one, otherwise the parse error is thrown
C30_UnparseableBodyIsFailure ==
  /\ [][op'.name \in {"returned", "threw"}
          /\ op'.response = "200 unparseable" => storage' = storage]_vars
  /\ [](settled /\ op.response = "200 unparseable" =>
          IF holdsEntry(op.key)
          THEN op.name = "returned" /\ op.value = storedEntry(op.key).data
          ELSE op.name = "threw" /\ op.error = JsonSyntaxError)

\* C30 with the fallback as the code takes it: a stored entry is served
\* when its payload is one that JavaScript takes as true
C30_UnparseableBodyServesTruthyEntry ==
  /\ [][op'.name \in {"returned", "threw"}
          /\ op'.response = "200 unparseable" => storage' = storage]_vars
  /\ [](settled /\ op.response = "200 unparseable" =>
          IF holdsEntry(op.key) /\ Truthy(storedEntry(op.key).data)
          THEN op.name = "returned" /\ op.value = storedEntry(op.key).data
          ELSE op.name = "threw" /\ op.error = JsonSyntaxError)

\* the parse error reached the caller of a key without entry
C30_Witness ==
  /\ op.name = "threw"
  /\ op.response = "200 unparseable"
  /\ op.error = JsonSyntaxError
  /\ ~holdsEntry(op.key)

-----------------------------------------------------------------------------
(* Agreement of the store operations, checked under Spec *)

\* the keys with a parseable entry, split at the boundary now < expiresAt
entryKeys == {k \in Keys : holdsEntry(k)}

validKeys == {k \in entryKeys : now < storedEntry(k).expiresAt}

expiredKeys == {k \in entryKeys : now >= storedEntry(k).expiresAt}

\* get and isValid place the entry of key k on the same side of the boundary
readsAgree(k) ==
  IF now < storedEntry(k).expiresAt
  THEN getCachedData(k) = storedEntry(k).data /\ isCacheValid(k)
  ELSE getCachedData(k) = NULL /\ ~isCacheValid(k)

\* the sweep and the stats place every entry on the side that the reads do
scansAgree ==
  /\ \A k \in validKeys :
       clearExpiredCache_storage[getCacheKey(k)] = storage[getCacheKey(k)]
  /\ \A k \in expiredKeys :
       clearExpiredCache_storage[getCacheKey(k)] = NoItem
  /\ getCacheStats.validEntries = Cardinality(validKeys)
  /\ getCacheStats.expiredEntries = Cardinality(expiredKeys)

\* C31: the store operations agree on the expiry boundary: a parseable entry
\* is either valid (now < expiresAt: get returns it, isValid is true, the
\* stats count it valid, the sweep keeps it) or expired (now >= expiresAt:
\* get returns absent, isValid is false, the stats count it expired, the
\* sweep removes it), also at now = expiresAt
C31_OperationsAgreeOnBoundary ==
  /\ validKeys \cap expiredKeys = {}
  /\ validKeys \cup expiredKeys = entryKeys
  /\ \A k \in entryKeys : readsAgree(k)
  /\ usable => scansAgree

\* C31 as amended: get and isValid agree on every parseable entry; the sweep
\* and the stats agree with them when every namespaced item parses
C31_OperationsAgreeWhenAllParse ==
  /\ validKeys \cap expiredKeys = {}
  /\ validKeys \cup expiredKeys = entryKeys
  /\ \A k \in entryKeys : readsAgree(k)
  /\ (usable /\ \A sk \in namespacedItems : storage[sk].kind = "json") =>
       scansAgree

\* isValid answered false for an entry at the millisecond it expires, next
\* to an entry with time left
C31_Witness ==
  /\ op.name = "isValid"
  /\ ~op.valid
  /\ holdsEntry(op.key)
  /\ storedEntry(op.key).expiresAt = now
  /\ storedEntry(op.key).timestamp < now
  /\ validKeys # {}

\* C32: for every key, isValid is true exactly when get returns a value
\* other than absent (null), whatever payload set has stored
C32_ValidIffGetReturnsValue ==
  \A k \in Keys : isCacheValid(k) = (getCachedData(k) # NULL)

\* C32 for the entries whose payload is not null
C32_ValidIffGetReturnsNonNullPayload ==
  \A k \in Keys :
    ~(holdsEntry(k) /\ storedEntry(k).data = NULL) =>
      isCacheValid(k) = (getCachedData(k) # NULL)

\* isValid answered true for the entry that set stored with payload null
C32_NullPayloadValid ==
  /\ op.name = "isValid"
  /\ op.valid
  /\ written[op.key] = NULL
  /\ getCachedData(op.key) = NULL

\* some namespaced item of the storage fails to parse
someUnparseable ==
  usable /\ \E sk \in namespacedItems : storage[sk].kind # "json"

\* C33: when a namespaced item fails to parse, sweepExpired removes no entry
\* at all, the expired entries of other keys included, and stats reports
\* zero total, valid and expired entries
C33_UnparseableItemAbortsScans ==
  /\ [][(someUnparseable /\ op'.name = "sweepExpired") =>
          /\ storage' = storage
          /\ op'.removed = 0]_vars
  /\ [](someUnparseable /\ op.name = "stats" =>
          /\ op.stats.totalEntries = 0
          /\ op.stats.validEntries = 0
          /\ op.stats.expiredEntries = 0)

\* the sweep left an expired entry in place next to an unparseable item
C33_Witness ==
  /\ op.name = "sweepExpired"
  /\ op.removed = 0
  /\ someUnparseable
  /\ expiredKeys # {}

\* the stats are zero while an entry with time left is stored next to an
\* unparseable item
C33_WitnessStats ==
  /\ op.name = "stats"
  /\ op.stats = ZeroStats
  /\ someUnparseable
  /\ validKeys # {}

\* this step is a set for key k whose storage write failed on quota
quotaFailedSet(k) ==
  /\ op'.name = "set"
  /\ op'.key = k
  /\ op'.setItemResult = "quota"

\* C34: after a set whose storage write fails on quota the store does not
\* hold the entry of that call: it holds the prior entry of the key
\* unchanged when that entry was unexpired, and no entry for the key when the
\* prior entry was expired or did not exist, so that getStale is then absent
C34_QuotaFailureKeepsOrDropsPrior ==
  [][\A k \in Keys :
       quotaFailedSet(k) =>
         IF k \in validKeys
         THEN storage'[getCacheKey(k)] = storage[getCacheKey(k)]
         ELSE /\ ~holdsEntry(k)'
              /\ getExpiredCacheData(k)' = NULL]_vars

\* C34 as amended: the expired prior entry is gone when every namespaced
\* item parses, and stays when one does not
C34_QuotaFailureDropsExpiredIfAllParse ==
  [][\A k \in Keys :
       quotaFailedSet(k) =>
         IF k \in validKeys \/ someUnparseable
         THEN storage'[getCacheKey(k)] = storage[getCacheKey(k)]
         ELSE /\ ~holdsEntry(k)'
              /\ getExpiredCacheData(k)' = NULL]_vars

\* the failed set found an item under its key and left none: the recovery
\* sweep removed the expired prior entry
C34_Witness ==
  /\ op.name = "set"
  /\ op.setItemResult = "quota"
  /\ op.replaced
  /\ storage[getCacheKey(op.key)] = NoItem

\* the failed set left the unexpired prior entry with its other payload
C34_WitnessKept ==
  /\ op.name = "set"
  /\ op.setItemResult = "quota"
  /\ op.key \in validKeys
  /\ storedEntry(op.key).data # op.data
  /\ storedEntry(op.key).timestamp < now

-----------------------------------------------------------------------------
(* Last writer wins, checked under SpecOverlap *)

\* op is the successful end of a call during which an overlapping call for
\* the same key had already ended successfully: the response of this call
\* completed last
completedLast ==
  /\ op.name = "returned"
  /\ op.response = "200"
  /\ op.peerReturned # NoPayload

\* C35: when two overlapping calls for the same key both succeed, the store
\* ends up holding the payload of the response that completed last, with
\* expiresAt computed from that completion time, whichever request was
\* issued first (stated for a browser whose storage is usable)
C35_LastCompletionWins ==
  usable /\ completedLast =>
    /\ holds(op.key, op.body)
    /\ storedEntry(op.key).timestamp = now
    /\ storedEntry(op.key).expiresAt = now + DEFAULT_TTL

\* C35 as amended: so it is when the storage write of the call that
\* completed last succeeds
C35_LastCompletionWinsIfWritten ==
  completedLast /\ op.cacheWrite = "ok" =>
    /\ holds(op.key, op.body)
    /\ storedEntry(op.key).timestamp = now
    /\ storedEntry(op.key).expiresAt = now + DEFAULT_TTL

\* the call issued first completed last, after the other one had stored
\* {P1}: the store holds its {P2}, timed from its completion
C35_Witness ==
  /\ completedLast
  /\ ~op.overlaps
  /\ op.cacheWrite = "ok"
  /\ op.peerReturned = "{P1}"
  /\ op.body = "{P2}"
  /\ holds(op.key, "{P2}")
  /\ now = TickMs
  /\ storedEntry(op.key).expiresAt = TickMs + DEFAULT_TTL

\* the call issued second completed last
C35_WitnessIssuedSecond ==
  /\ completedLast
  /\ op.overlaps
  /\ op.cacheWrite = "ok"
  /\ op.peerReturned = "{P1}"
  /\ holds(op.key, "{P2}")

-----------------------------------------------------------------------------
(* Invalidation and calls in flight, checked under SpecFetch *)

\* op is the successful end of a call whose entry was removed by
\* invalidateCacheEntry or clearCache while it was in flight
returnedAfterRemoval ==
  /\ op.name = "returned"
  /\ op.response = "200"
  /\ op.entryRemoved

\* get is absent after the removal and stays absent until the next write
absentUntilSet ==
  /\ [](op.name = "invalidate" => getCachedData(op.key) = NULL)
  /\ [](op.name = "clearAll" => \A k \in Keys : getCachedData(k) = NULL)
  /\ [][\A k \in Keys :
          (getCachedData(k) = NULL /\ getCachedData(k)' # NULL) =>
            /\ op'.name = "returned"
            /\ op'.response = "200"
            /\ op'.key = k
            /\ op'.cacheWrite = "ok"]_vars

\* C36: after invalidateCacheEntry(k) or clearCache() get(k) stays absent
\* until the next set(k); a call for k that was in flight when the entry was
\* removed still performs that set when its response arrives, so the entry
\* reappears without a new call (stated for a browser whose storage is
\* usable)
C36_InFlightCallRestoresEntry ==
  /\ absentUntilSet
  /\ [](usable /\ returnedAfterRemoval =>
          /\ op.requests = 1
          /\ holds(op.key, op.body))

\* C36 as amended: the entry reappears when the write of that set succeeds
C36_InFlightCallRestoresEntryIfWritten ==
  /\ absentUntilSet
  /\ [](returnedAfterRemoval /\ op.cacheWrite = "ok" =>
          /\ op.requests = 1
          /\ holds(op.key, op.body)
          /\ storedEntry(op.key).timestamp = now)

\* a forced call found an entry, the entry was invalidated while the call
\* waited, and the response of the call put an entry back
C36_Witness ==
  /\ returnedAfterRemoval
  /\ op.cacheWrite = "ok"
  /\ op.forceRefresh
  /\ op.atCall = "valid"
  /\ op.body = "{P2}"
  /\ getCachedData(op.key) = "{P2}"

-----------------------------------------------------------------------------
(* Loading and error state of the data hooks, checked under SpecHooks *)

\* the calls of the hook by what became of them
pendingFetches ==
  {i \in 1..Len(hook.fetches) : hook.fetches[i].outcome = "pending"}

settledFetches ==
  {i \in 1..Len(hook.fetches) : hook.fetches[i].outcome \in {"data", "error"}}

forcedInFlight == \E i \in pendingFetches : hook.fetches[i].forceRefresh

\* C37: in useCryptos, useGlobalData and useTrending loading is true from
\* mount until the first fetch settles, every fetch that settles sets loading
\* to false, and when every request completes in the end loading is
\* eventually false and stays false while no forced refresh is in flight
C37_LoadingUntilSettled ==
  /\ [](hook.phase # "unmounted" /\ settledFetches = {} => hook.loading)
  /\ [][(hook.phase = "mounted"
           /\ op'.name \in {"fetchResolved", "fetchRejected"}) =>
          ~hook'.loading]_vars
  /\ [](hook.phase = "mounted" /\ settledFetches # {} /\ ~forcedInFlight =>
          ~hook.loading)
  /\ (hook.phase = "mounted" ~> (hook.phase = "unmounted" \/ ~hook.loading))

\* the only fetch of useTrending failed and loading is false
C37_Witness ==
  /\ hook.fn = "useTrending"
  /\ hook.phase = "mounted"
  /\ op.name = "fetchRejected"
  /\ Len(hook.fetches) = 1
  /\ hook.error = RATE_LIMIT_MESSAGE
  /\ ~hook.loading

\* loading is true again while the forced refresh that followed the first
\* response is in flight
C37_WitnessForced ==
  /\ hook.phase = "mounted"
  /\ settledFetches # {}
  /\ forcedInFlight
  /\ hook.loading

\* op is the settling of the last call of useCryptos that was in flight
allSettled ==
  /\ hook.fn = "useCryptos"
  /\ hook.phase = "mounted"
  /\ op.name \in {"fetchResolved", "fetchRejected"}
  /\ pendingFetches = {}

\* C38: in useCryptos, once all fetches in flight have settled, error is
\* non-null exactly when the fetch that settled last failed, also when
\* fetches overlap
C38_ErrorIffLastSettledFailed ==
  allSettled => ((hook.error # NULL) = (op.name = "fetchRejected"))

\* the direction that the code keeps: a fetch that failed last leaves its
\* message
C38_FailedLastLeavesError ==
  allSettled /\ op.name = "fetchRejected" => hook.error = op.message

\* the error of the call that failed first is shown next to the data of the
\* call that resolved last
C38_StaleErrorNextToFreshData ==
  /\ allSettled
  /\ op.name = "fetchResolved"
  /\ hook.fetches[op.fetch].outcome = "data"
  /\ hook.data = "{P1}"
  /\ hook.error = RATE_LIMIT_MESSAGE

\* C39: useCryptos sets lastUpdated to the current time on every fetch that
\* resolves, a cache hit and a stale fallback included, and leaves it
\* unchanged when the fetch throws; lastUpdated is then never earlier, and can
\* be later, than the time at which the displayed data came from the network
C39_LastUpdatedOnEveryResolve ==
  /\ [][(hook.fn = "useCryptos" /\ hook.phase = "mounted"
           /\ op'.name = "fetchResolved") =>
          /\ hook'.lastUpdated = hook.clock
          /\ hook'.data = op'.response]_vars
  /\ [][(hook.fn = "useCryptos" /\ op'.name = "fetchRejected") =>
          /\ hook'.lastUpdated = hook.lastUpdated
          /\ hook'.data = hook.data]_vars
  /\ [](hook.fn = "useCryptos" => hook.obtainedAt <= hook.lastUpdated)
  /\ [](hook.fn = "useCryptos" /\ hook.phase = "rendered" =>
          hook.lastUpdated = NoDate)

\* lastUpdated is the time of the resolve and the displayed data is older:
\* it came from the store
C39_Witness ==
  /\ hook.fn = "useCryptos"
  /\ op.name = "fetchResolved"
  /\ hook.data = "{P1}"
  /\ hook.lastUpdated = hook.clock
  /\ hook.clock = 2 * HookTickMs
  /\ hook.obtainedAt = hook.clock - CachedAge

\* the fetch threw and lastUpdated is still that of the earlier response
C39_WitnessThrew ==
  /\ hook.fn = "useCryptos"
  /\ op.name = "fetchRejected"
  /\ hook.phase = "mounted"
  /\ hook.lastUpdated # NoDate
  /\ hook.lastUpdated < hook.clock

====
